---- MODULE Spec2Model ----
(***************************************************************************)
(* Personal Finance Tracker MCP server (index.js, db.js, utils.js).        *)
(*                                                                         *)
(* The server owns one sql.js database with a single table `expenses` and  *)
(* exports it to a file after every successful write.  Every tool call is  *)
(* a synchronous function, so each operation is one atomic action.         *)
(*                                                                         *)
(* Strings are sequences of one-character strings, so that trim(),         *)
(* toLowerCase(), the date regex, Date parsing and SQLite's binary text    *)
(* comparison are computed rather than assumed.  An optional argument is   *)
(* <<>> (undefined / not supplied) or <<v>> (supplied).  A number is a     *)
(* record with its JavaScript type; finite amounts are whole numbers of    *)
(* currency units.                                                         *)
(***************************************************************************)
EXTENDS Integers, Sequences, FiniteSets, TLC

(***************************************************************************)
(* Bounds of the model.                                                    *)
(***************************************************************************)
\* ids the AUTOINCREMENT counter may hand out before add_expense is cut off
MaxId == 2
\* rows the table may hold at once
MaxRows == 2
\* latest value of the wall clock read by datetime('now')
MaxClock == 1

(***************************************************************************)
(* Characters and strings.                                                 *)
(***************************************************************************)
Digits == <<"0", "1", "2", "3", "4", "5", "6", "7", "8", "9">>
Upper == <<"A", "B", "C", "D", "E", "F", "G", "H", "I", "J", "K", "L", "M",
           "N", "O", "P", "Q", "R", "S", "T", "U", "V", "W", "X", "Y", "Z">>
Lower == <<"a", "b", "c", "d", "e", "f", "g", "h", "i", "j", "k", "l", "m",
           "n", "o", "p", "q", "r", "s", "t", "u", "v", "w", "x", "y", "z">>
\* the characters of the model in code-point order
Alphabet == <<" ", "\"", ",", "-", "/">> \o Digits \o Upper \o Lower

Range(s) == {s[i] : i \in DOMAIN s}
IndexIn(s, c) == CHOOSE i \in DOMAIN s : s[i] = c
DigitSet == Range(Digits)
UpperSet == Range(Upper)
DigitValues == [c \in DigitSet |-> IndexIn(Digits, c) - 1]
CodePoints == [c \in Range(Alphabet) |-> IndexIn(Alphabet, c)]
LowerOfUpper == [c \in UpperSet |-> Lower[IndexIn(Upper, c)]]
IsDigit(c) == c \in DigitSet
DigitVal(c) == DigitValues[c]
CodePoint(c) == CodePoints[c]

\* String.prototype.toLowerCase
LowerChar(c) == IF c \in UpperSet THEN LowerOfUpper[c] ELSE c
toLowerCase(s) == [i \in DOMAIN s |-> LowerChar(s[i])]

\* String.prototype.trim
IsSpace(c) == c = " "
\* the first and the last position of s that hold no white space
RECURSIVE FirstInk(_, _)
FirstInk(s, i) == IF i <= Len(s) /\ IsSpace(s[i]) THEN FirstInk(s, i + 1) ELSE i
RECURSIVE LastInk(_, _)
LastInk(s, i) == IF i >= 1 /\ IsSpace(s[i]) THEN LastInk(s, i - 1) ELSE i
trim(s) == SubSeq(s, FirstInk(s, 1), LastInk(s, Len(s)))

\* SQLite BINARY collation on TEXT: memcmp from position i on, then the
\* shorter string first
RECURSIVE TextLessFrom(_, _, _)
TextLessFrom(a, b, i) ==
    IF i > Len(b) THEN FALSE
    ELSE IF i > Len(a) THEN TRUE
    ELSE IF a[i] # b[i] THEN CodePoint(a[i]) < CodePoint(b[i])
    ELSE TextLessFrom(a, b, i + 1)
TextLess(a, b) == TextLessFrom(a, b, 1)
TextLeq(a, b) == a = b \/ TextLess(a, b)

(***************************************************************************)
(* Calendar arithmetic behind the JavaScript Date object.                  *)
(***************************************************************************)
IsLeapYear(y) == (y % 4 = 0 /\ y % 100 # 0) \/ y % 400 = 0
DaysInMonth(y, m) ==
    IF m = 2 THEN (IF IsLeapYear(y) THEN 29 ELSE 28)
    ELSE IF m \in {4, 6, 9, 11} THEN 30 ELSE 31
DaysInYear(y) == IF IsLeapYear(y) THEN 366 ELSE 365
\* days from 0000-01-01 to the first day of year y (y >= 0)
DaysBeforeYear(y) ==
    IF y = 0 THEN 0
    ELSE 365 * y + ((y - 1) \div 4) - ((y - 1) \div 100) + ((y - 1) \div 400) + 1
RECURSIVE DaysBeforeMonth(_, _)
DaysBeforeMonth(y, m) ==
    IF m = 1 THEN 0 ELSE DaysBeforeMonth(y, m - 1) + DaysInMonth(y, m - 1)
\* MakeDay: the day number of year/month plus a day-of-month that may overflow
MakeDay(y, m, d) == DaysBeforeYear(y) + DaysBeforeMonth(y, m) + d - 1
YearFromDay(n) ==
    CHOOSE y \in (n \div 366)..(n \div 365) :
        DaysBeforeYear(y) <= n /\ n < DaysBeforeYear(y + 1)
\* the month of day k (0-based) of year y
MonthOfYearDay(y, k) ==
    CHOOSE m \in 1..12 :
        DaysBeforeMonth(y, m) <= k /\ k < DaysBeforeMonth(y, m) + DaysInMonth(y, m)
YearMonthDay(y, m, k) == [year |-> y, month |-> m, day |-> k - DaysBeforeMonth(y, m) + 1]
DateInYear(y, k) == YearMonthDay(y, MonthOfYearDay(y, k), k)
DateOfYear(n, y) == DateInYear(y, n - DaysBeforeYear(y))
DateFromDay(n) == DateOfYear(n, YearFromDay(n))

Pad2(n) == <<Digits[(n \div 10) + 1], Digits[(n % 10) + 1]>>
Pad4(n) == Pad2(n \div 100) \o Pad2(n % 100)

\* /^\d{4}-\d{2}-\d{2}$/.test(s); an argument that is not supplied is tested
\* as the text "undefined" and does not match
DateRegexTest(s) ==
    /\ Len(s) = 10
    /\ \A i \in {1, 2, 3, 4, 6, 7, 9, 10} : IsDigit(s[i])
    /\ s[5] = "-"
    /\ s[8] = "-"
Num2(s, i) == 10 * DigitVal(s[i]) + DigitVal(s[i + 1])
YearOf(s) == 100 * Num2(s, 1) + Num2(s, 3)
MonthOf(s) == Num2(s, 6)
DayOf(s) == Num2(s, 9)
\* new Date("YYYY-MM-DD") in V8: <<>> is an Invalid Date (NaN), <<n>> a day
\* number; a day of 1..31 is accepted for every month and rolls over
DateParse(s) ==
    IF MonthOf(s) \in 1..12 /\ DayOf(s) \in 1..31
    THEN <<MakeDay(YearOf(s), MonthOf(s), DayOf(s))>>
    ELSE <<>>
\* date.toISOString().split('T')[0]
FormatISODate(d) == Pad4(d.year) \o <<"-">> \o Pad2(d.month) \o <<"-">> \o Pad2(d.day)
toISODate(n) == FormatISODate(DateFromDay(n))

(***************************************************************************)
(* JavaScript numbers.  The amounts of the model are whole numbers, whose  *)
(* sums are exact in double precision and are kept as integers.  A         *)
(* quotient is not exact: it is kept as the double it rounds to, a record  *)
(* [exp, digits] of value Q * 2^(exp - 53), where the six digits write Q   *)
(* in base 512, 2^53 <= Q < 2^54, and Q is even: Q / 2 is the 53-bit       *)
(* significand and the last bit of Q is the place rounding looks at.       *)
(***************************************************************************)
Base == 512
TopDigit == 256
AllOnes == <<511, 511, 511, 511, 511, 511>>
RECURSIVE PlusOne(_, _)
\* digits plus one, the carry running from place i to the left
PlusOne(digits, i) ==
    IF digits[i] < Base - 1 THEN [digits EXCEPT ![i] = digits[i] + 1]
    ELSE PlusOne([digits EXCEPT ![i] = 0], i - 1)
\* round to nearest, ties to even: Q is the exact value cut after 54 bits,
\* inexact says that something non-zero was cut off
RoundsUp(digits, inexact) ==
    digits[6] % 2 = 1 /\ (inexact \/ (digits[6] \div 2) % 2 = 1)
RoundToDouble(exp, digits, inexact) ==
    IF digits[6] % 2 = 0 THEN [exp |-> exp, digits |-> digits]
    ELSE IF ~RoundsUp(digits, inexact)
         THEN [exp |-> exp, digits |-> [digits EXCEPT ![6] = digits[6] - 1]]
    ELSE IF digits = AllOnes
         THEN [exp |-> exp + 1, digits |-> <<TopDigit, 0, 0, 0, 0, 0>>]
    ELSE [exp |-> exp, digits |-> PlusOne(digits, 6)]

\* the k with n * 2^k <= s < n * 2^(k+1), for 1 <= s, n < 2^14
QuotientExponent(s, n) ==
    CHOOSE k \in -14..14 :
        IF k >= 0 THEN n * 2^k <= s /\ s < n * 2^(k + 1)
        ELSE n <= s * 2^(-k) /\ s * 2^(-k) < 2 * n
RECURSIVE LongDivision(_, _, _, _)
\* n more base-512 digits of r / D after the digits acc, and what remains
LongDivision(r, D, n, acc) ==
    IF n = 0 THEN [digits |-> acc, rem |-> r]
    ELSE LongDivision((r * Base) % D, D, n - 1, Append(acc, (r * Base) \div D))
\* the first 54 bits of num / D, which lies in [1, 2)
Quotient(num, D) ==
    LongDivision((num * TopDigit) % D, D, 5, <<(num * TopDigit) \div D>>)
Rounded(exp, q) == RoundToDouble(exp, q.digits, q.rem # 0)
DivideAt(s, n, k) ==
    IF k >= 0 THEN Rounded(k, Quotient(s, n * 2^k))
    ELSE Rounded(k, Quotient(s * 2^(-k), n))
\* s / n in double precision, for whole numbers 1 <= s, n < 2^14
Divide(s, n) == DivideAt(s, n, QuotientExponent(s, n))
\* the double of a whole number 1 <= n < 2^14
DoubleOfInt(n) == Divide(n, 1)

RECURSIVE TimesFrom(_, _, _, _)
\* the seven base-512 digits of digits * n: from place i to the left with
\* carry c
TimesFrom(digits, n, i, c) ==
    IF i = 0 THEN <<c>>
    ELSE Append(TimesFrom(digits, n, i - 1, (digits[i] * n + c) \div Base),
                (digits[i] * n + c) % Base)
BitLength(c) == CHOOSE L \in 0..14 : c < 2^L /\ (L = 0 \/ 2^(L - 1) <= c)
\* digit i of the seven digits p moved b < 9 bits to the right
ShiftedDigit(p, b, i) == (p[i + 1] \div 2^b) + (p[i] % 2^b) * 2^(9 - b)
Shifted(p, b) ==
    <<ShiftedDigit(p, b, 1), ShiftedDigit(p, b, 2), ShiftedDigit(p, b, 3),
      ShiftedDigit(p, b, 4), ShiftedDigit(p, b, 5), ShiftedDigit(p, b, 6)>>
RoundShifted(exp, p, b, inexact) ==
    RoundToDouble(exp, Shifted(p, b), inexact \/ p[7] % 2^b # 0)
\* the double nearest to the seven-digit product p, whose first digit has L
\* bits
RoundProduct(exp, p, L) ==
    IF L >= 9
    THEN RoundShifted(exp + L, <<0>> \o SubSeq(p, 1, 6), L - 9, p[7] # 0)
    ELSE RoundShifted(exp + L, p, L, FALSE)
Product(exp, p) == RoundProduct(exp, p, BitLength(p[1]))
\* x * n in double precision, for a double x and a whole number 1 <= n < 2^14
Times(x, n) == Product(x.exp, TimesFrom(x.digits, n, 6, 0))

RECURSIVE DigitsInt(_, _)
\* the number written by the first n digits of p
DigitsInt(p, n) == IF n <= 0 THEN 0 ELSE Base * DigitsInt(p, n - 1) + p[n]
\* the whole number nearest to p / 2^t, a half going up; p has seven digits
\* and t >= 37
NearestWhole(p, t) ==
    IF t >= 63 THEN 0
    ELSE (DigitsInt(p, 7 - (t \div 9)) \div 2^(t % 9))
         + (IF t % 9 > 0
            THEN (DigitsInt(p, 7 - (t \div 9)) \div 2^((t % 9) - 1)) % 2
            ELSE p[8 - (t \div 9)] \div TopDigit)
\* x.toFixed(2) counted in hundredths: the n for which n / 100 is nearest to
\* x, the larger n of two; for a double x below 2^17
Hundredths(x) == NearestWhole(TimesFrom(x.digits, 100, 6, 0), 53 - x.exp)

RECURSIVE DecimalText(_)
\* String(n) for a whole number n >= 0
DecimalText(n) ==
    IF n < 10 THEN <<Digits[n + 1]>>
    ELSE Append(DecimalText(n \div 10), Digits[(n % 10) + 1])
\* x.toFixed(2)
toFixed2(x) ==
    DecimalText(Hundredths(x) \div 100) \o <<".">> \o Pad2(Hundredths(x) % 100)
\* the number 0 where a double is expected
ZeroDouble == [exp |-> 0, digits |-> <<0, 0, 0, 0, 0, 0>>]

(***************************************************************************)
(* db.js: validation.                                                      *)
(***************************************************************************)
Str_food == <<"f", "o", "o", "d">>
Str_transport == <<"t", "r", "a", "n", "s", "p", "o", "r", "t">>
Str_entertainment ==
    <<"e", "n", "t", "e", "r", "t", "a", "i", "n", "m", "e", "n", "t">>
Str_bills == <<"b", "i", "l", "l", "s">>
Str_shopping == <<"s", "h", "o", "p", "p", "i", "n", "g">>
Str_health == <<"h", "e", "a", "l", "t", "h">>
Str_education == <<"e", "d", "u", "c", "a", "t", "i", "o", "n">>
Str_travel == <<"t", "r", "a", "v", "e", "l">>
Str_savings == <<"s", "a", "v", "i", "n", "g", "s">>
Str_other == <<"o", "t", "h", "e", "r">>
VALID_CATEGORIES ==
    <<Str_food, Str_transport, Str_entertainment, Str_bills, Str_shopping,
      Str_health, Str_education, Str_travel, Str_savings, Str_other>>

\* JavaScript values an amount argument can be
Num(n) == [type |-> "number", num |-> "finite", val |-> n]
Infinity == [type |-> "number", num |-> "Infinity", val |-> 0]
NaN == [type |-> "number", num |-> "NaN", val |-> 0]
NumericText(n) == [type |-> "string", num |-> "finite", val |-> n]

\* isValidAmount without the test amount > 0
isValidAmount_AnySign(amount) ==
    amount # <<>> /\ amount[1].type = "number" /\ amount[1].num = "finite"

\* typeof amount === 'number' && amount > 0 && isFinite(amount)
isValidAmount(amount) ==
    /\ amount # <<>>
    /\ amount[1].type = "number"
    /\ \/ amount[1].num = "Infinity"
       \/ amount[1].num = "finite" /\ amount[1].val > 0
    /\ amount[1].num = "finite"

\* VALID_CATEGORIES.includes(category.toLowerCase()), category a string
ValidCategorySet == Range(VALID_CATEGORIES)
isValidCategory(category) == toLowerCase(category) \in ValidCategorySet

\* the Date part of isValidDate without the comparison of the two texts
RoundTrips_NotCompared(s, date) == date # <<>>

\* !isNaN(date) && dateString === date.toISOString().split('T')[0]
RoundTrips(s, date) == date # <<>> /\ s = toISODate(date[1])
\* isValidDate with the regex test alone
isValidDate_RegexOnly(dateString) ==
    dateString # <<>> /\ DateRegexTest(dateString[1])
\* the regex test, then the round trip through Date
isValidDate(dateString) ==
    /\ dateString # <<>>
    /\ DateRegexTest(dateString[1])
    /\ RoundTrips(dateString[1], DateParse(dateString[1]))

(***************************************************************************)
(* The sql.js database: table expenses and the AUTOINCREMENT counter that  *)
(* SQLite keeps in sqlite_sequence.  A row is a record                     *)
(* [id, amount, category, description, date, created_at].                  *)
(***************************************************************************)
EmptyDatabase == [expenses |-> {}, seq |-> 0]

MaxOf(S) == CHOOSE x \in S : \A y \in S : y <= x
\* a rowid without AUTOINCREMENT: one more than the largest rowid in the table
NextRowid_MaxPlusOne(d) == MaxOf({0} \cup {r.id : r \in d.expenses}) + 1

\* INTEGER PRIMARY KEY AUTOINCREMENT: one more than the largest rowid the
\* table has ever held
NextRowid(d) == MaxOf({d.seq} \cup {r.id : r \in d.expenses}) + 1

\* INSERT INTO expenses (amount, category, description, date) VALUES (?, ?, ?, ?)
InsertRow(d, r) == [expenses |-> d.expenses \cup {r}, seq |-> r.id]
Insert(d, amount, category, description, date, t) ==
    InsertRow(d, [id |-> NextRowid(d), amount |-> amount, category |-> category,
                  description |-> description, date |-> date, created_at |-> t])

\* UPDATE expenses SET <col = ?, ...> WHERE id = ?; sets is a sequence of
\* [col, val] pairs
RECURSIVE SetColumns(_, _)
SetColumns(r, sets) ==
    IF sets = <<>> THEN r
    ELSE SetColumns([r EXCEPT ![Head(sets).col] = Head(sets).val], Tail(sets))
\* the UPDATE without its WHERE clause
Update_EveryRow(d, sets, id) ==
    [d EXCEPT !.expenses = {SetColumns(r, sets) : r \in d.expenses}]

Update(d, sets, id) ==
    [d EXCEPT !.expenses =
        {IF r.id = id THEN SetColumns(r, sets) ELSE r : r \in d.expenses}]

\* the DELETE with WHERE id <= ?
Delete_UpTo(d, id) == [d EXCEPT !.expenses = {r \in d.expenses : r.id > id}]

\* DELETE FROM expenses WHERE id = ?
Delete(d, id) == [d EXCEPT !.expenses = {r \in d.expenses : r.id # id}]

\* one WHERE term "AND <col> <op> ?" with its bound parameter
\* the WHERE terms with date > ? and date < ? in place of >= and <=
TermHolds_Exclusive(r, term) ==
    CASE term.op = ">=" -> TextLess(term.val, r[term.col])
      [] term.op = "<=" -> TextLess(r[term.col], term.val)
      [] term.op = "=" -> r[term.col] = term.val

TermHolds(r, term) ==
    CASE term.op = ">=" -> TextLeq(term.val, r[term.col])
      [] term.op = "<=" -> TextLeq(r[term.col], term.val)
      [] term.op = "=" -> r[term.col] = term.val
Where(d, terms) ==
    {r \in d.expenses : \A i \in DOMAIN terms : TermHolds(r, terms[i])}

\* ORDER BY date DESC, id DESC
ComesBefore(r1, r2) ==
    \/ TextLess(r2.date, r1.date)
    \/ r1.date = r2.date /\ r1.id > r2.id
First(S) == CHOOSE r \in S : \A o \in S \ {r} : ComesBefore(r, o)
RECURSIVE OrderByDateDescIdDesc(_)
Then(first, S) == <<first>> \o OrderByDateDescIdDesc(S \ {first})
OrderByDateDescIdDesc(S) == IF S = {} THEN <<>> ELSE Then(First(S), S)

\* LIMIT ?: a negative limit means no upper bound
Limit(rows, n) ==
    IF n < 0 \/ n >= Len(rows) THEN rows ELSE SubSeq(rows, 1, n)

\* SELECT * FROM expenses WHERE id = ?
SelectById(d, id) == OrderByDateDescIdDesc({r \in d.expenses : r.id = id})

\* the same SELECT with ORDER BY id ASC
SelectLastInserted_Ascending(d) ==
    IF d.expenses = {} THEN <<>>
    ELSE <<CHOOSE r \in d.expenses : \A o \in d.expenses : r.id <= o.id>>

\* SELECT * FROM expenses ORDER BY id DESC LIMIT 1
SelectLastInserted(d) ==
    IF d.expenses = {} THEN <<>>
    ELSE <<CHOOSE r \in d.expenses : \A o \in d.expenses : o.id <= r.id>>

\* the aggregate functions over a set S of rows
AmountOf(r) == r.amount.val
RECURSIVE SumAmount(_)
SumRest(r, S) == AmountOf(r) + SumAmount(S \ {r})
\* SUM(amount), for a set that is not empty
SumAmount(S) == IF S = {} THEN 0 ELSE SumRest(CHOOSE r \in S : TRUE, S)
\* AVG(amount) by whole-number division
AvgAmount_Truncated(S) == DoubleOfInt(SumAmount(S) \div Cardinality(S))
\* AVG(amount): the sum divided by the count, a double
AvgAmount(S) == Divide(SumAmount(S), Cardinality(S))
MinAmount(S) == CHOOSE x \in {AmountOf(r) : r \in S} : \A r \in S : x <= AmountOf(r)
MaxAmount(S) == CHOOSE x \in {AmountOf(r) : r \in S} : \A r \in S : AmountOf(r) <= x

\* SELECT category, COUNT(*), SUM(amount), AVG(amount), MIN(amount),
\* MAX(amount) ... GROUP BY category: the row of the group g
CategoryStats(category, g) ==
    [category |-> category, transaction_count |-> Cardinality(g),
     total_amount |-> SumAmount(g), average_amount |-> AvgAmount(g),
     min_amount |-> MinAmount(g), max_amount |-> MaxAmount(g)]
GroupStatsByCategory(S) ==
    {CategoryStats(c, {r \in S : r.category = c}) : c \in {r.category : r \in S}}
\* SELECT category, COUNT(*), SUM(amount) ... GROUP BY category
CategoryTotals(category, g) ==
    [category |-> category, transaction_count |-> Cardinality(g),
     total_amount |-> SumAmount(g)]
GroupTotalsByCategory(S) ==
    {CategoryTotals(c, {r \in S : r.category = c}) : c \in {r.category : r \in S}}
\* SELECT date, COUNT(*), SUM(amount) ... GROUP BY date
DateTotals(date, g) ==
    [date |-> date, transaction_count |-> Cardinality(g), total_amount |-> SumAmount(g)]
GroupTotalsByDate(S) ==
    {DateTotals(x, {r \in S : r.date = x}) : x \in {r.date : r \in S}}

RECURSIVE OrderByTotalDesc(_)
\* ORDER BY total_amount DESC: SQL leaves the order of groups of equal total
\* open, so this is the set of the orders the query may return
Largest_Least(G) == {g \in G : \A o \in G : g.total_amount <= o.total_amount}
Largest(G) == {g \in G : \A o \in G : o.total_amount <= g.total_amount}
OrderByTotalDesc(G) ==
    IF G = {} THEN {<<>>}
    ELSE UNION {{<<g>> \o rest : rest \in OrderByTotalDesc(G \ {g})} : g \in Largest(G)}
RECURSIVE OrderByDateAsc(_)
Earliest(G) == CHOOSE g \in G : \A o \in G \ {g} : TextLess(g.date, o.date)
AfterEarliest(g, G) == <<g>> \o OrderByDateAsc(G \ {g})
\* ORDER BY date ASC, over groups of distinct dates
OrderByDateAsc(G) == IF G = {} THEN <<>> ELSE AfterEarliest(Earliest(G), G)

(***************************************************************************)
(* index.js: helpers of the operations.                                    *)
(***************************************************************************)
\* rowToObject: null for no rows, the object for one row, an array otherwise
rowToObject(rows) ==
    IF Len(rows) = 0 THEN [kind |-> "null", obj |-> <<>>, arr |-> <<>>]
    ELSE IF Len(rows) = 1 THEN [kind |-> "object", obj |-> <<rows[1]>>, arr |-> <<>>]
    ELSE [kind |-> "array", obj |-> <<>>, arr |-> rows]

\* result[0] ? rowToObject(result[0]) : null, read as an optional row
OneRow(rows) == rowToObject(rows).obj

\* a JavaScript string argument is truthy when supplied and non-empty
Truthy(arg) == arg # <<>> /\ arg[1] # <<>>

ERR_AMOUNT == "Amount must be a positive number"
ERR_CATEGORY ==
    "Invalid category. Must be one of: food, transport, entertainment, bills, shopping, health, education, travel, savings, other"
ERR_DATE == "Invalid date format. Use YYYY-MM-DD"
ERR_START_DATE == "Invalid start date format. Use YYYY-MM-DD"
ERR_END_DATE == "Invalid end date format. Use YYYY-MM-DD"
ERR_DESCRIPTION == "Description cannot be empty"
ERR_NO_FIELDS ==
    "No fields to update. Provide at least one field: amount, category, description, or date"
ERR_NOT_FOUND(id) == "Expense with ID " \o ToString(id) \o " not found"
\* category.toLowerCase() on an argument that was not supplied
ERR_TYPE == "Cannot read properties of undefined (reading 'toLowerCase')"

\* a response of the call handler; a thrown error becomes success: false
Response(success, error, message, expense, count, expenses) ==
    [success |-> success, error |-> error, message |-> message,
     expense |-> expense, count |-> count, expenses |-> expenses]
Failure(error) == Response(FALSE, error, "", <<>>, 0, <<>>)

\* the outcome of one operation: memory, file, response, and whether
\* saveDatabase ran
Outcome(d, f, resp, saved) ==
    [db |-> d, file |-> f, resp |-> resp, saved |-> saved, thrown |-> FALSE]
\* the operation throws: the catch block of the handler answers with the
\* message of the error
Thrown(d, f, error) ==
    [db |-> d, file |-> f, resp |-> Failure(error), saved |-> FALSE, thrown |-> TRUE]

\* saveDatabase: the file becomes the export of the whole database
saveDatabase(d) == d

(***************************************************************************)
(* index.js: the operations.  d is the database in memory, f the file.     *)
(***************************************************************************)
\* the tail of addExpense, d2 being the database after the INSERT
Added(d2) ==
    Outcome(d2, saveDatabase(d2),
            Response(TRUE, "", "Expense added successfully",
                     OneRow(SelectLastInserted(d2)), 0, <<>>),
            TRUE)

\* Tool 1: add_expense; t is the value datetime('now') yields
addExpense(d, f, t, amount, category, description, date) ==
    IF ~isValidAmount(amount) THEN Thrown(d, f, ERR_AMOUNT)
    ELSE IF category = <<>> THEN Thrown(d, f, ERR_TYPE)
    ELSE IF ~isValidCategory(category[1]) THEN Thrown(d, f, ERR_CATEGORY)
    ELSE IF ~isValidDate(date) THEN Thrown(d, f, ERR_DATE)
    ELSE IF ~Truthy(description) \/ Len(trim(description[1])) = 0
         THEN Thrown(d, f, ERR_DESCRIPTION)
    ELSE Added(Insert(d, amount[1], toLowerCase(category[1]),
                      trim(description[1]), date[1], t))

\* the WHERE terms getExpenses appends for its filters
DateTerms(startDate, endDate) ==
    (IF Truthy(startDate)
     THEN <<[col |-> "date", op |-> ">=", val |-> startDate[1]]>> ELSE <<>>)
    \o (IF Truthy(endDate)
        THEN <<[col |-> "date", op |-> "<=", val |-> endDate[1]]>> ELSE <<>>)
\* the category compared as it was passed
CategoryTerms_AsPassed(category) ==
    IF Truthy(category)
    THEN <<[col |-> "category", op |-> "=", val |-> category[1]]>>
    ELSE <<>>
CategoryTerms(category) ==
    IF Truthy(category)
    THEN <<[col |-> "category", op |-> "=", val |-> toLowerCase(category[1])]>>
    ELSE <<>>

\* limit = 100 when the argument is not supplied
DEFAULT_LIMIT == 100
LimitOrDefault(limit) == IF limit = <<>> THEN DEFAULT_LIMIT ELSE limit[1]

\* Array.isArray(expenses) ? expenses : [], the single object forgotten
AsArray_ArraysOnly(expenses) == expenses.arr
\* Array.isArray(expenses) ? expenses : (expenses ? [expenses] : [])
AsArray(expenses) == IF expenses.kind = "array" THEN expenses.arr ELSE expenses.obj
\* the tail of getExpenses, list being the expenses it returns
Listed(d, f, list) == Outcome(d, f, Response(TRUE, "", "", <<>>, Len(list), list), FALSE)

\* Tool 2: get_expenses
getExpenses(d, f, startDate, endDate, category, limit) ==
    IF Truthy(startDate) /\ ~isValidDate(startDate) THEN Thrown(d, f, ERR_START_DATE)
    ELSE IF Truthy(endDate) /\ ~isValidDate(endDate) THEN Thrown(d, f, ERR_END_DATE)
    ELSE IF Truthy(category) /\ ~isValidCategory(category[1])
         THEN Thrown(d, f, ERR_CATEGORY)
    ELSE Listed(d, f,
            AsArray(rowToObject(
                Limit(OrderByDateDescIdDesc(
                          Where(d, DateTerms(startDate, endDate)
                                       \o CategoryTerms(category))),
                      LimitOrDefault(limit)))))

\* the SET list updateExpense builds from the fields that were supplied
UpdateSets(amount, category, description, date) ==
    (IF amount # <<>> THEN <<[col |-> "amount", val |-> amount[1]]>> ELSE <<>>)
    \o (IF category # <<>>
        THEN <<[col |-> "category", val |-> toLowerCase(category[1])]>> ELSE <<>>)
    \o (IF description # <<>>
        THEN <<[col |-> "description", val |-> trim(description[1])]>> ELSE <<>>)
    \o (IF date # <<>> THEN <<[col |-> "date", val |-> date[1]]>> ELSE <<>>)

\* the tail of updateExpense, d2 being the database after the UPDATE
Updated(d2, id) ==
    Outcome(d2, saveDatabase(d2),
            Response(TRUE, "", "Expense updated successfully",
                     OneRow(SelectById(d2, id)), 0, <<>>),
            TRUE)
\* updateExpense without the test updates.length === 0; SQLite then has
\* nothing to set and the row stays as it is
RunUpdate_NoEmptyCheck(d, f, updates, id) == Updated(Update(d, updates, id), id)

RunUpdate(d, f, updates, id) ==
    IF Len(updates) = 0 THEN Thrown(d, f, ERR_NO_FIELDS)
    ELSE Updated(Update(d, updates, id), id)

\* updateExpense with the look-up of the row moved behind the field checks
updateExpense_ValidateFirst(d, f, id, amount, category, description, date) ==
    IF amount # <<>> /\ ~isValidAmount(amount) THEN Thrown(d, f, ERR_AMOUNT)
    ELSE IF category # <<>> /\ ~isValidCategory(category[1])
         THEN Thrown(d, f, ERR_CATEGORY)
    ELSE IF description # <<>> /\ Len(trim(description[1])) = 0
         THEN Thrown(d, f, ERR_DESCRIPTION)
    ELSE IF date # <<>> /\ ~isValidDate(date) THEN Thrown(d, f, ERR_DATE)
    ELSE IF OneRow(SelectById(d, id)) = <<>> THEN Thrown(d, f, ERR_NOT_FOUND(id))
    ELSE RunUpdate(d, f, UpdateSets(amount, category, description, date), id)

\* updateExpense writing the amount as soon as it is found valid, before the
\* other fields are looked at
AmountWritten(d, amount, id) ==
    IF amount = <<>> THEN d ELSE Update(d, UpdateSets(amount, <<>>, <<>>, <<>>), id)
updateExpense_FieldByField(d, f, id, amount, category, description, date) ==
    IF OneRow(SelectById(d, id)) = <<>> THEN Thrown(d, f, ERR_NOT_FOUND(id))
    ELSE IF amount # <<>> /\ ~isValidAmount(amount) THEN Thrown(d, f, ERR_AMOUNT)
    ELSE IF category # <<>> /\ ~isValidCategory(category[1])
         THEN Thrown(AmountWritten(d, amount, id), f, ERR_CATEGORY)
    ELSE IF description # <<>> /\ Len(trim(description[1])) = 0
         THEN Thrown(AmountWritten(d, amount, id), f, ERR_DESCRIPTION)
    ELSE IF date # <<>> /\ ~isValidDate(date)
         THEN Thrown(AmountWritten(d, amount, id), f, ERR_DATE)
    ELSE RunUpdate(d, f, UpdateSets(amount, category, description, date), id)

\* Tool 5: update_expense
updateExpense(d, f, id, amount, category, description, date) ==
    IF OneRow(SelectById(d, id)) = <<>> THEN Thrown(d, f, ERR_NOT_FOUND(id))
    ELSE IF amount # <<>> /\ ~isValidAmount(amount) THEN Thrown(d, f, ERR_AMOUNT)
    ELSE IF category # <<>> /\ ~isValidCategory(category[1])
         THEN Thrown(d, f, ERR_CATEGORY)
    ELSE IF description # <<>> /\ Len(trim(description[1])) = 0
         THEN Thrown(d, f, ERR_DESCRIPTION)
    ELSE IF date # <<>> /\ ~isValidDate(date) THEN Thrown(d, f, ERR_DATE)
    ELSE RunUpdate(d, f, UpdateSets(amount, category, description, date), id)

\* the tail of deleteExpense, existing being the row read before the DELETE
Deleted(d2, existing) ==
    Outcome(d2, saveDatabase(d2),
            Response(TRUE, "", "Expense deleted successfully", existing, 0, <<>>),
            TRUE)
RunDelete(d, f, existing, id) ==
    IF existing = <<>> THEN Thrown(d, f, ERR_NOT_FOUND(id))
    ELSE Deleted(Delete(d, id), existing)

\* Tool 6: delete_expense
deleteExpense(d, f, id) == RunDelete(d, f, OneRow(SelectById(d, id)), id)

\* result[0] ? rowToObject(result[0]) : [], made an array as the code does
\* with Array.isArray(x) ? x : (x ? [x] : [])
ArrayOfRows(rows) == AsArray(rowToObject(rows))

\* a JavaScript value that is a string or a number, with its text
StringValue(text) == [type |-> "string", text |-> text]
NumberValue(text) == [type |-> "number", text |-> text]
\* the percentage with the fallback taken for every group
Percentage_FallbackAlways(total_amount, totalSpending) == NumberValue(<<"0">>)
\* totalSpending > 0 ? ((cat.total_amount / totalSpending) * 100).toFixed(2) : 0
Percentage(total_amount, totalSpending) ==
    IF totalSpending > 0
    THEN StringValue(toFixed2(Times(Divide(total_amount, totalSpending), 100)))
    ELSE NumberValue(<<"0">>)
\* {...cat, percentage}
WithPercentage(cat, totalSpending) ==
    [category |-> cat.category, transaction_count |-> cat.transaction_count,
     total_amount |-> cat.total_amount, average_amount |-> cat.average_amount,
     min_amount |-> cat.min_amount, max_amount |-> cat.max_amount,
     percentage |-> Percentage(cat.total_amount, totalSpending)]
RECURSIVE SumTotalAmount(_, _)
\* breakdownArray.reduce((sum, cat) => sum + (cat.total_amount || 0), 0),
\* over the first n groups
SumTotalAmount(arr, n) ==
    IF n = 0 THEN 0 ELSE SumTotalAmount(arr, n - 1) + arr[n].total_amount
RECURSIVE MapWithPercentage(_, _, _)
MapWithPercentage(arr, n, totalSpending) ==
    IF n = 0 THEN <<>>
    ELSE Append(MapWithPercentage(arr, n - 1, totalSpending),
                WithPercentage(arr[n], totalSpending))
SpendingResponse(totalSpending, categories) ==
    [success |-> TRUE, error |-> "", total_spending |-> totalSpending,
     categories |-> categories]
\* the tail of getSpendingByCategory, breakdownArray being the groups read
Breakdown(d, f, breakdownArray, totalSpending) ==
    Outcome(d, f,
            SpendingResponse(totalSpending,
                MapWithPercentage(breakdownArray, Len(breakdownArray), totalSpending)),
            FALSE)
BreakdownOf(d, f, breakdownArray) ==
    Breakdown(d, f, breakdownArray, SumTotalAmount(breakdownArray, Len(breakdownArray)))

\* Tool 3: get_spending_by_category; the set of the outcomes the call may
\* have, one for each order the query may return
getSpendingByCategory(d, f, startDate, endDate) ==
    IF Truthy(startDate) /\ ~isValidDate(startDate) THEN {Thrown(d, f, ERR_START_DATE)}
    ELSE IF Truthy(endDate) /\ ~isValidDate(endDate) THEN {Thrown(d, f, ERR_END_DATE)}
    ELSE {BreakdownOf(d, f, ArrayOfRows(rows)) :
            rows \in OrderByTotalDesc(
                        GroupStatsByCategory(Where(d, DateTerms(startDate, endDate))))}

ERR_YEAR == "Invalid year. Must be between 2000 and 2100"
ERR_MONTH == "Invalid month. Must be between 1 and 12"
MonthNames ==
    <<"January", "February", "March", "April", "May", "June", "July", "August",
      "September", "October", "November", "December">>
\* utils.js: months[month - 1] || 'Unknown'
getMonthName(month) == IF month \in DOMAIN MonthNames THEN MonthNames[month] ELSE "Unknown"
\* String(n).padStart(2, '0')
padStart2(text) == IF Len(text) < 2 THEN <<"0">> \o text ELSE text
\* the last day of the month in a year that is not a leap year
LastDayOfMonth_NoLeapYear(year, month) == DaysInMonth(2001, month)
\* new Date(year, month, 0).getDate(): day 0 of the month after
LastDayOfMonth(year, month) == DateFromDay(MakeDay(year, month + 1, 0)).day
MonthStartDate(year, month) ==
    DecimalText(year) \o <<"-">> \o padStart2(DecimalText(month)) \o <<"-", "0", "1">>
\* the end of the month taken to be its 30th day
MonthEndDate_Thirty(year, month) ==
    DecimalText(year) \o <<"-">> \o padStart2(DecimalText(month)) \o <<"-", "3", "0">>
MonthEndDate(year, month) ==
    DecimalText(year) \o <<"-">> \o padStart2(DecimalText(month)) \o <<"-">>
        \o padStart2(DecimalText(LastDayOfMonth(year, month)))
\* WHERE date >= ?, the end of the period forgotten
BetweenDates_FromStart(d, startDate, endDate) ==
    Where(d, <<[col |-> "date", op |-> ">=", val |-> startDate]>>)
\* WHERE date >= ? AND date <= ?
BetweenDates(d, startDate, endDate) ==
    Where(d, <<[col |-> "date", op |-> ">=", val |-> startDate],
               [col |-> "date", op |-> "<=", val |-> endDate]>>)
\* totals.transaction_count || 0, totals.total_amount || 0 and
\* totals.average_amount || 0: SUM and AVG of no rows are NULL
MonthSummary(S) ==
    [total_transactions |-> Cardinality(S),
     total_spending |-> IF S = {} THEN 0 ELSE SumAmount(S),
     average_transaction |-> IF S = {} THEN ZeroDouble ELSE AvgAmount(S)]
SummaryResponse(year, month, period, summary, categoryArray, dailyArray) ==
    [success |-> TRUE, error |-> "", month |-> getMonthName(month), year |-> year,
     period |-> period, summary |-> summary,
     category_breakdown |-> categoryArray, daily_spending |-> dailyArray]
\* the queries and the tail of getMonthlySummary, S being the rows of the
\* month
Summarized(d, f, year, month, startDate, endDate, S) ==
    {Outcome(d, f,
             SummaryResponse(year, month,
                 startDate \o <<" ", "t", "o", " ">> \o endDate,
                 MonthSummary(S), ArrayOfRows(categoryRows),
                 ArrayOfRows(OrderByDateAsc(GroupTotalsByDate(S)))),
             FALSE) :
        categoryRows \in OrderByTotalDesc(GroupTotalsByCategory(S))}
SummaryOfPeriod(d, f, year, month, startDate, endDate) ==
    Summarized(d, f, year, month, startDate, endDate,
               BetweenDates(d, startDate, endDate))
\* the range test with its ends left out
OutOfRange_EndsExcluded(n, low, high) == n = <<>> \/ n[1] <= low \/ n[1] >= high
\* !n || n < low || n > high, for an argument that is a whole number or is
\* not supplied
OutOfRange(n, low, high) == n = <<>> \/ n[1] = 0 \/ n[1] < low \/ n[1] > high

\* Tool 4: get_monthly_summary; the set of the outcomes the call may have
getMonthlySummary(d, f, year, month) ==
    IF OutOfRange(year, 2000, 2100) THEN {Thrown(d, f, ERR_YEAR)}
    ELSE IF OutOfRange(month, 1, 12) THEN {Thrown(d, f, ERR_MONTH)}
    ELSE SummaryOfPeriod(d, f, year[1], month[1],
                         MonthStartDate(year[1], month[1]),
                         MonthEndDate(year[1], month[1]))

CSV_HEADER ==
    <<"i", "d", ",", "a", "m", "o", "u", "n", "t", ",",
      "c", "a", "t", "e", "g", "o", "r", "y", ",",
      "d", "e", "s", "c", "r", "i", "p", "t", "i", "o", "n", ",",
      "d", "a", "t", "e", ",",
      "c", "r", "e", "a", "t", "e", "d", "_", "a", "t", "\n">>
\* the description with its quotes left as they are
EscapeQuotes_None(text, n) == SubSeq(text, 1, n)
RECURSIVE EscapeQuotes(_, _)
\* description.replace(/"/g, '""'), over the first n characters
EscapeQuotes(text, n) ==
    IF n = 0 THEN <<>>
    ELSE EscapeQuotes(text, n - 1)
             \o (IF text[n] = "\"" THEN <<"\"", "\"">> ELSE <<text[n]>>)
\* [id, amount, category, `"${description...}"`, date, created_at].join(',');
\* created_at is written as the clock reading it holds
CsvRow(expense) ==
    DecimalText(expense.id) \o <<",">> \o DecimalText(AmountOf(expense)) \o <<",">>
        \o expense.category \o <<",", "\"">>
        \o EscapeQuotes(expense.description, Len(expense.description))
        \o <<"\"", ",">> \o expense.date \o <<",">> \o DecimalText(expense.created_at)
RECURSIVE JoinRows(_, _)
\* rows.join('\n'), over the first n >= 1 expenses
JoinRows(expenses, n) ==
    IF n = 1 THEN CsvRow(expenses[1])
    ELSE JoinRows(expenses, n - 1) \o <<"\n">> \o CsvRow(expenses[n])
\* utils.js: convertToCSV
convertToCSV(expenses) ==
    IF Len(expenses) = 0 THEN CSV_HEADER
    ELSE CSV_HEADER \o JoinRows(expenses, Len(expenses))

\* exportToCSV asks getExpenses for up to 10000 expenses
EXPORT_LIMIT == 10000
ExportResponse(count, csv) ==
    [success |-> TRUE, error |-> "", count |-> count, csv |-> csv,
     message |-> "Exported " \o ToString(count) \o " expenses to CSV format"]
\* the tail of exportToCSV, result being what getExpenses returned or threw
Exported(d, f, result) ==
    IF ~result.resp.success THEN result
    ELSE Outcome(d, f,
                 ExportResponse(result.resp.count, convertToCSV(result.resp.expenses)),
                 FALSE)

\* Tool 7: export_to_csv
exportToCSV(d, f, startDate, endDate, category) ==
    Exported(d, f, getExpenses(d, f, startDate, endDate, category, <<EXPORT_LIMIT>>))

ERR_UNKNOWN_TOOL(name) == "Unknown tool: " \o name
\* a switch without its default: result stays undefined and is returned
unknownTool_NoDefault(d, f, name) == Outcome(d, f, Response(TRUE, "", "", <<>>, 0, <<>>), FALSE)
\* default: throw new Error(`Unknown tool: ${name}`)
unknownTool(d, f, name) == Thrown(d, f, ERR_UNKNOWN_TOOL(name))

\* initializeDatabase when finance.db exists: the database is read from the
\* file, CREATE TABLE IF NOT EXISTS finds the table, and the database is
\* saved again
initializeDatabase(f) == [db |-> f, file |-> saveDatabase(f)]

(***************************************************************************)
(* Arguments the tool calls are tried with.                                *)
(***************************************************************************)
Str_Food == <<"F", "o", "o", "d">>
Str_BILLS == <<"B", "I", "L", "L", "S">>
Str_xyz == <<"x", "y", "z">>
Str_tea == <<"t", "e", "a">>
Str_bus_padded == <<" ", "b", "u", "s", " ">>
Str_blank == <<" ", " ">>
Date_0228 == <<"2", "0", "2", "4", "-", "0", "2", "-", "2", "8">>
Date_0229 == <<"2", "0", "2", "4", "-", "0", "2", "-", "2", "9">>
Date_0301 == <<"2", "0", "2", "4", "-", "0", "3", "-", "0", "1">>
Date_0230 == <<"2", "0", "2", "4", "-", "0", "2", "-", "3", "0">>
Date_1301 == <<"2", "0", "2", "4", "-", "1", "3", "-", "0", "1">>
Date_slashes == <<"1", "1", "/", "0", "3", "/", "2", "0", "2", "4">>

ValidAmounts == {<<Num(10)>>, <<Num(20)>>}
InvalidAmounts ==
    {<<>>, <<Num(0)>>, <<Num(-10)>>, <<Infinity>>, <<NaN>>, <<NumericText(50)>>}
ValidCategoryArgs == {<<Str_Food>>, <<Str_bills>>}
InvalidCategoryArgs == {<<>>, <<Str_xyz>>, <<<<>>>>}
ValidDescriptions == {<<Str_tea>>, <<Str_bus_padded>>}
InvalidDescriptions == {<<>>, <<Str_blank>>, <<<<>>>>}
ValidDates == {<<Date_0228>>, <<Date_0301>>}
InvalidDates == {<<>>, <<Date_0230>>, <<Date_1301>>, <<Date_slashes>>, <<<<>>>>}

\* add_expense calls <<amount, category, description, date>>: every valid
\* combination, every invalid value beside otherwise valid ones, and one call
\* with nothing valid
AddCalls ==
    (ValidAmounts \X ValidCategoryArgs \X ValidDescriptions \X ValidDates)
    \cup (InvalidAmounts \X {<<Str_Food>>} \X {<<Str_tea>>} \X {<<Date_0228>>})
    \cup ({<<Num(10)>>} \X InvalidCategoryArgs \X {<<Str_tea>>} \X {<<Date_0228>>})
    \cup ({<<Num(10)>>} \X {<<Str_Food>>} \X InvalidDescriptions \X {<<Date_0228>>})
    \cup ({<<Num(10)>>} \X {<<Str_Food>>} \X {<<Str_tea>>} \X InvalidDates)
    \cup {<<<<Num(0)>>, <<Str_xyz>>, <<Str_blank>>, <<Date_0230>>>>}

\* update_expense fields <<amount, category, description, date>>: every subset
\* of new valid values, and every invalid value alone or beside valid ones
NewAmount == {<<>>, <<Num(20)>>}
NewCategory == {<<>>, <<Str_BILLS>>}
NewDescription == {<<>>, <<Str_bus_padded>>}
NewDate == {<<>>, <<Date_0301>>}
UpdateFields ==
    (NewAmount \X NewCategory \X NewDescription \X NewDate)
    \cup ((InvalidAmounts \ {<<>>}) \X {<<>>} \X {<<>>} \X {<<>>})
    \cup ({<<Num(0)>>} \X {<<Str_BILLS>>} \X {<<Str_bus_padded>>} \X {<<Date_0301>>})
    \cup ({<<>>} \X (InvalidCategoryArgs \ {<<>>}) \X {<<>>} \X {<<>>})
    \cup ({<<Num(20)>>} \X {<<Str_xyz>>} \X {<<Str_bus_padded>>} \X {<<Date_0301>>})
    \cup ({<<>>} \X {<<>>} \X (InvalidDescriptions \ {<<>>}) \X {<<>>})
    \cup ({<<Num(20)>>} \X {<<Str_BILLS>>} \X {<<Str_blank>>} \X {<<Date_0301>>})
    \cup ({<<>>} \X {<<>>} \X {<<>>} \X (InvalidDates \ {<<>>}))
    \cup ({<<Num(20)>>} \X {<<Str_BILLS>>} \X {<<Str_bus_padded>>} \X {<<Date_0230>>})
IdArgs == 0..MaxId

\* get_expenses calls <<startDate, endDate, category, limit>>
StartDates == {<<>>, <<Date_0229>>, <<Date_0301>>}
EndDates == {<<>>, <<Date_0228>>, <<Date_0229>>}
CategoryFilters == {<<>>, <<Str_Food>>, <<Str_bills>>}
LimitArgs == {<<>>, <<1>>, <<0>>, <<-1>>}
GetCalls ==
    (StartDates \X EndDates \X CategoryFilters \X {<<>>})
    \cup (StartDates \X EndDates \X {<<>>} \X {<<1>>})
    \cup ({<<>>} \X {<<>>} \X CategoryFilters \X LimitArgs)
    \cup ((InvalidDates \ {<<>>}) \X {<<>>} \X {<<>>} \X {<<>>})
    \cup ({<<>>} \X (InvalidDates \ {<<>>}) \X {<<>>} \X {<<>>})
    \cup ({<<>>} \X {<<>>} \X (InvalidCategoryArgs \ {<<>>}) \X {<<>>})
\* a supplied filter that is the empty text
EmptyText == <<<<>>>>
\* get_spending_by_category calls <<startDate, endDate>>
BreakdownCalls == {<<<<>>, <<>>>>, <<<<Date_0301>>, <<>>>>, <<<<Date_0230>>, <<>>>>}
\* get_monthly_summary calls <<year, month>>
SummaryCalls == {<<<<2024>>, <<3>>>>, <<<<>>, <<3>>>>, <<<<2024>>, <<13>>>>}
\* export_to_csv calls <<startDate, endDate, category>>
ExportCalls ==
    {<<<<>>, <<>>, <<>>>>, <<<<>>, <<Date_0228>>, <<Str_Food>>>>,
     <<<<>>, <<>>, <<Str_xyz>>>>}
UnknownTools == {"get_balance", ""}

(***************************************************************************)
(* The state machine.                                                      *)
(***************************************************************************)
VARIABLES
    db,     \* the sql.js database in memory
    file,   \* the contents of finance.db on disk
    now,    \* the wall clock, in seconds
    issued, \* the ids the INSERTs that reached the file were given, in order
    last    \* the tool call handled last, its response and its isError flag

vars == <<db, file, now, issued, last>>

\* initializeDatabase with no file on disk: an empty table, saved at once
Init ==
    /\ db = EmptyDatabase
    /\ file = saveDatabase(EmptyDatabase)
    /\ now = 0
    /\ issued = <<>>
    /\ last = [op |-> "none", resp |-> Failure(""), saved |-> TRUE, isError |-> FALSE]

Handled(op, out) ==
    /\ db' = out.db
    /\ file' = out.file
    /\ last' = [op |-> op, resp |-> out.resp, saved |-> out.saved,
                isError |-> out.thrown]

\* the clock is read by the INSERT and moves on a second, up to MaxClock
Tick(t) == IF t < MaxClock THEN t + 1 ELSE t

AddExpenseCall(amount, category, description, date) ==
    \E out \in {addExpense(db, file, now, amount, category, description, date)} :
        /\ out.resp.success =>
              Len(issued) < MaxId /\ Cardinality(db.expenses) < MaxRows
        /\ Handled("add_expense", out)
        /\ now' = IF out.resp.success THEN Tick(now) ELSE now
        /\ issued' = IF out.resp.success /\ out.resp.expense # <<>>
                     THEN Append(issued, out.resp.expense[1].id) ELSE issued

AddExpense == \E c \in AddCalls : AddExpenseCall(c[1], c[2], c[3], c[4])

GetExpensesCall(startDate, endDate, category, limit) ==
    /\ \E out \in {getExpenses(db, file, startDate, endDate, category, limit)} :
            Handled("get_expenses", out)
    /\ UNCHANGED <<now, issued>>

GetExpenses == \E c \in GetCalls : GetExpensesCall(c[1], c[2], c[3], c[4])

UpdateExpenseCall(id, amount, category, description, date) ==
    /\ \E out \in {updateExpense(db, file, id, amount, category, description, date)} :
            Handled("update_expense", out)
    /\ UNCHANGED <<now, issued>>

UpdateExpense ==
    \E id \in IdArgs, c \in UpdateFields : UpdateExpenseCall(id, c[1], c[2], c[3], c[4])

DeleteExpenseCall(id) ==
    /\ \E out \in {deleteExpense(db, file, id)} : Handled("delete_expense", out)
    /\ UNCHANGED <<now, issued>>

DeleteExpense == \E id \in IdArgs : DeleteExpenseCall(id)

GetSpendingByCategory ==
    /\ \E c \in BreakdownCalls :
          \E out \in getSpendingByCategory(db, file, c[1], c[2]) :
              Handled("get_spending_by_category", out)
    /\ UNCHANGED <<now, issued>>

GetMonthlySummary ==
    /\ \E c \in SummaryCalls :
          \E out \in getMonthlySummary(db, file, c[1], c[2]) :
              Handled("get_monthly_summary", out)
    /\ UNCHANGED <<now, issued>>

ExportToCSV ==
    /\ \E c \in ExportCalls :
          \E out \in {exportToCSV(db, file, c[1], c[2], c[3])} :
              Handled("export_to_csv", out)
    /\ UNCHANGED <<now, issued>>

\* a request that names no tool of the server
UnknownTool ==
    /\ \E name \in UnknownTools :
          \E out \in {unknownTool(db, file, name)} : Handled(name, out)
    /\ UNCHANGED <<now, issued>>

Next ==
    \/ AddExpense
    \/ GetExpenses
    \/ UpdateExpense
    \/ DeleteExpense
    \/ GetSpendingByCategory
    \/ GetMonthlySummary
    \/ ExportToCSV
    \/ UnknownTool

Spec == Init /\ [][Next]_vars

(***************************************************************************)
(* The process ending and starting again.  writeFileSync opens finance.db  *)
(* for writing, which empties it, and then writes the exported database.   *)
(***************************************************************************)
\* finance.db emptied and not yet written: SQLite reads a file of no bytes
\* as a database without tables
EmptyFile == EmptyDatabase

\* main() runs initializeDatabase, which loads finance.db as it finds it;
\* whole tells whether the file is one a saveDatabase completed
Restarted(f, whole) ==
    \E init \in {initializeDatabase(f)} :
        /\ db' = init.db
        /\ file' = init.file
        /\ last' = [op |-> "restart", resp |-> Failure(""), saved |-> whole,
                    isError |-> FALSE]

\* the process ends between two requests, or inside a handler before its
\* saveDatabase: the file is what the last completed save wrote
Restart == Restarted(file, TRUE) /\ UNCHANGED <<now, issued>>

\* the process ends inside addExpense after saveDatabase and before the
\* response is sent: the row and its id are on disk, the caller heard nothing
CrashAfterAdd ==
    \E c \in ValidAmounts \X {<<Str_food>>} \X {<<Str_tea>>} \X {<<Date_0301>>} :
        \E out \in {addExpense(db, file, now, c[1], c[2], c[3], c[4])} :
            /\ out.saved
            /\ Len(issued) < MaxId /\ Cardinality(db.expenses) < MaxRows
            /\ Restarted(out.file, TRUE)
            /\ now' = Tick(now)
            /\ issued' = Append(issued, out.resp.expense[1].id)

\* the same inside updateExpense and deleteExpense
CrashAfterChange ==
    /\ \E id \in IdArgs :
          \/ \E out \in {updateExpense(db, file, id, <<Num(20)>>, <<>>, <<>>, <<Date_0301>>)} :
                out.saved /\ Restarted(out.file, TRUE)
          \/ \E out \in {deleteExpense(db, file, id)} :
                out.saved /\ Restarted(out.file, TRUE)
    /\ UNCHANGED <<now, issued>>

\* the process ends inside the saveDatabase of deleteExpense, after
\* writeFileSync has emptied finance.db and before it has written to it
CrashInSave ==
    /\ \E id \in IdArgs :
          \E out \in {deleteExpense(db, file, id)} :
              out.saved /\ Restarted(EmptyFile, FALSE)
    /\ UNCHANGED <<now, issued>>

NextCrash == Next \/ Restart \/ CrashAfterAdd \/ CrashAfterChange \/ CrashInSave

SpecCrash == Init /\ [][NextCrash]_vars

\* the same with every saveDatabase that begins running to its end
NextWholeSaves == Next \/ Restart \/ CrashAfterAdd \/ CrashAfterChange
SpecWholeSaves == Init /\ [][NextWholeSaves]_vars

(***************************************************************************)
(* One request made of a store the write operations can have left.  What  *)
(* an operation answers and does depends on the store and the arguments    *)
(* alone; here the stores and the arguments range wider than the state     *)
(* machine above can afford.                                               *)
(***************************************************************************)
Date_20231231 == <<"2", "0", "2", "3", "-", "1", "2", "-", "3", "1">>
Date_20240101 == <<"2", "0", "2", "4", "-", "0", "1", "-", "0", "1">>
Date_20240131 == <<"2", "0", "2", "4", "-", "0", "1", "-", "3", "1">>
Date_20240201 == <<"2", "0", "2", "4", "-", "0", "2", "-", "0", "1">>
Date_20000229 == <<"2", "0", "0", "0", "-", "0", "2", "-", "2", "9">>
Date_21000228 == <<"2", "1", "0", "0", "-", "0", "2", "-", "2", "8">>
Date_19991231 == <<"1", "9", "9", "9", "-", "1", "2", "-", "3", "1">>
Str_quoted == <<"6", "\"", ",", "\n", "c">>

\* the row an accepted add_expense stores
StoredRow(id, amount, category, description, date) ==
    [id |-> id, amount |-> Num(amount), category |-> category,
     description |-> description, date |-> date,
     created_at |-> IF id = 1 THEN 0 ELSE MaxClock]
Row(id, amount, category, date) == StoredRow(id, amount, category, Str_tea, date)
\* the database holding the rows, no row deleted
Store(rows) == [expenses |-> rows, seq |-> Cardinality(rows)]

RowKinds ==
    {10, 30} \X {Str_food, Str_transport} \X {Date_0228, Date_0229, Date_0301}
\* every table of at most two rows of these kinds
SmallStores ==
    {Store({})}
    \cup {Store({Row(1, k[1], k[2], k[3])}) : k \in RowKinds}
    \cup {Store({Row(1, k[1][1], k[1][2], k[1][3]), Row(2, k[2][1], k[2][2], k[2][3])}) :
            k \in RowKinds \X RowKinds}
\* two categories, one of them with two records
ThreeRecords ==
    Store({Row(1, 10, Str_food, Date_0228), Row(2, 20, Str_food, Date_0301),
           Row(3, 30, Str_transport, Date_0301)})
\* seven records of one category whose amounts add up to 29
SevenRecords ==
    Store({Row(i, IF i = 7 THEN 5 ELSE 4, Str_food, Date_0301) : i \in 1..7})
\* shares of 23 and 137 in 160
UnevenShares ==
    Store({Row(1, 23, Str_food, Date_0301), Row(2, 137, Str_transport, Date_0301)})
\* shares of 1 and 31 in 32
ThirtySeconds ==
    Store({Row(1, 1, Str_food, Date_0301), Row(2, 31, Str_transport, Date_0301)})
\* shares of one and two thirds
Thirds ==
    Store({Row(1, 10, Str_food, Date_0229), Row(2, 20, Str_bills, Date_0301)})
\* records on the first and last days of months and years
MonthEnds ==
    Store({Row(1, 10, Str_food, Date_20231231), Row(2, 20, Str_food, Date_20240101),
           Row(3, 30, Str_bills, Date_20240131), Row(4, 40, Str_food, Date_20240201),
           Row(5, 50, Str_other, Date_0229), Row(6, 60, Str_food, Date_0301)})
CenturyEnds ==
    Store({Row(1, 10, Str_food, Date_19991231), Row(2, 20, Str_food, Date_20000229),
           Row(3, 30, Str_bills, Date_21000228)})
\* descriptions with quotes, a comma and a line break
QuotedDescriptions ==
    Store({StoredRow(1, 10, Str_food, Str_quoted, Date_0228),
           StoredRow(2, 20, Str_bills, Str_bus_padded, Date_0301)})
Stores ==
    SmallStores
    \cup {ThreeRecords, SevenRecords, UnevenShares, ThirtySeconds, Thirds, MonthEnds,
          CenturyEnds,
          QuotedDescriptions}

RECURSIVE Counting(_)
\* <<1, ..., n>>
Counting(n) == IF n = 0 THEN <<>> ELSE Append(Counting(n - 1), n)

QueryInit ==
    /\ db \in Stores
    /\ file = saveDatabase(db)
    /\ now = MaxClock
    /\ issued = Counting(db.seq)
    /\ last = [op |-> "none", args |-> <<>>, resp |-> Failure(""), saved |-> TRUE,
               isError |-> FALSE]

\* the answer to a request, kept with its arguments
Asked(op, args, out) ==
    /\ db' = out.db
    /\ file' = out.file
    /\ last' = [op |-> op, args |-> args, resp |-> out.resp, saved |-> out.saved,
                isError |-> out.thrown]
    /\ UNCHANGED <<now, issued>>
\* one request is made of each store
Unasked == last.op = "none"

DateFilters ==
    {<<>>, EmptyText, <<Date_0228>>, <<Date_0229>>, <<Date_0301>>, <<Date_20240101>>}
InvalidDateFilters == {<<Date_0230>>, <<Date_1301>>, <<Date_slashes>>}
CategoryQueries ==
    {<<>>, EmptyText, <<Str_Food>>, <<Str_bills>>, <<Str_BILLS>>, <<Str_xyz>>}
LimitQueries == {<<>>, <<1>>, <<2>>, <<100>>, <<1000>>, <<0>>, <<-1>>, <<1001>>}
\* <<startDate, endDate>> with at least one of them not a date
InvalidDateQueries ==
    (InvalidDateFilters \X {<<>>, <<Date_0301>>, <<Date_0230>>})
    \cup ({<<>>, <<Date_0228>>} \X InvalidDateFilters)
GetQueries ==
    (DateFilters \X DateFilters \X {<<>>, <<Str_Food>>} \X {<<>>})
    \cup ({<<>>, <<Date_0229>>} \X {<<>>} \X CategoryQueries \X LimitQueries)
    \cup {<<q[1], q[2], c, <<>>>> : q \in InvalidDateQueries, c \in {<<>>, <<Str_xyz>>}}
BreakdownQueries == (DateFilters \X DateFilters) \cup InvalidDateQueries
ExportQueries ==
    (DateFilters \X DateFilters \X {<<>>})
    \cup ({<<>>, <<Date_0229>>} \X {<<>>, <<Date_0229>>} \X CategoryQueries)
    \cup {<<q[1], q[2], c>> : q \in InvalidDateQueries, c \in {<<>>, <<Str_xyz>>}}
FirstYear == 2000
LastYear == 2100
YearQueries ==
    {<<y>> : y \in {FirstYear, 2001, 2023, 2024, LastYear}}
    \cup {<<>>, <<0>>, <<-1>>, <<FirstYear - 1>>, <<LastYear + 1>>}
MonthQueries == {<<m>> : m \in -1..13} \cup {<<>>}
SummaryQueries == YearQueries \X MonthQueries

AskExpenses ==
    /\ Unasked
    /\ \E c \in GetQueries :
          \E out \in {getExpenses(db, file, c[1], c[2], c[3], c[4])} :
              Asked("get_expenses", c, out)

AskSpendingByCategory ==
    /\ Unasked
    /\ \E c \in BreakdownQueries :
          \E out \in getSpendingByCategory(db, file, c[1], c[2]) :
              Asked("get_spending_by_category", c, out)

AskMonthlySummary ==
    /\ Unasked
    /\ \E c \in SummaryQueries :
          \E out \in getMonthlySummary(db, file, c[1], c[2]) :
              Asked("get_monthly_summary", c, out)

AskExport ==
    /\ Unasked
    /\ \E c \in ExportQueries :
          \E out \in {exportToCSV(db, file, c[1], c[2], c[3])} :
              Asked("export_to_csv", c, out)

\* update_expense calls <<id, amount, category, description, date>>
UpdateQueries ==
    {<<id, c[1], c[2], c[3], c[4]>> :
        id \in IdArgs,
        c \in UpdateFields
               \cup {<<<<Num(20)>>, <<>>, <<>>, <<Date_0230>>>>,
                     <<<<Num(20)>>, EmptyText, <<>>, <<>>>>,
                     <<<<>>, <<Str_BILLS>>, EmptyText, <<>>>>,
                     <<<<Num(20)>>, <<>>, <<>>, EmptyText>>}}

AskUpdate ==
    /\ Unasked
    /\ \E c \in UpdateQueries :
          \E out \in {updateExpense(db, file, c[1], c[2], c[3], c[4], c[5])} :
              Asked("update_expense", c, out)

\* every month of every year the summary is specified for, asked of the
\* stores with records at the ends of months, years and centuries
AskAnyMonth ==
    /\ Unasked
    /\ db \in {MonthEnds, CenturyEnds}
    /\ \E year \in FirstYear..LastYear, month \in 1..12 :
          \E out \in getMonthlySummary(db, file, <<year>>, <<month>>) :
              Asked("get_monthly_summary", <<<<year>>, <<month>>>>, out)

NextQuery ==
    \/ AskExpenses
    \/ AskSpendingByCategory
    \/ AskMonthlySummary
    \/ AskExport
    \/ AskAnyMonth
    \/ AskUpdate

SpecQuery == QueryInit /\ [][NextQuery]_vars

(***************************************************************************)
(* What the claims speak of, stated without the code's own validators.     *)
(***************************************************************************)
\* a JavaScript number that is finite and greater than zero
PositiveFinite(v) == v.type = "number" /\ v.num = "finite" /\ v.val > 0
\* a text of the form YYYY-MM-DD that names a day of the calendar
RealCalendarDate(s) ==
    /\ Len(s) = 10
    /\ \A i \in 1..10 : IF i \in {5, 8} THEN s[i] = "-" ELSE s[i] \in DigitSet
    /\ MonthOf(s) \in 1..12
    /\ DayOf(s) \in 1..DaysInMonth(YearOf(s), MonthOf(s))
\* one of the ten category names, written in lower case
FixedCategory(s) == s \in ValidCategorySet /\ \A i \in DOMAIN s : s[i] \notin UpperSet
\* a text with at least one character and no white space at either end
TrimmedNonEmpty(s) == Len(s) > 0 /\ s[1] # " " /\ s[Len(s)] # " "
WellFormedRow(r) ==
    /\ PositiveFinite(r.amount)
    /\ FixedCategory(r.category)
    /\ TrimmedNonEmpty(r.description)
    /\ RealCalendarDate(r.date)

\* C1: after any sequence of add_expense, update_expense and delete_expense
\* calls from the empty store, every record in memory and in the file has an
\* amount that is a finite number > 0, one of the ten categories in lower
\* case, a non-empty description without surrounding white space, and a
\* YYYY-MM-DD date that is a real calendar date.
Thm_C1_RecordsWellFormed ==
    \A r \in db.expenses \cup file.expenses : WellFormedRow(r)

\* C1 witness: two records are stored and the last call was a successful
\* update that followed inserts of upper-case and padded input.
Wit_C1 ==
    /\ Cardinality(db.expenses) = 2
    /\ last.op = "update_expense"
    /\ last.resp.success
    /\ \E r \in db.expenses : r.category = Str_food /\ r.description = <<"b", "u", "s">>

\* C2: the ids returned by successful add_expense calls are strictly
\* increasing, deleted ids included, so no two records share an id and no id
\* is handed out twice.
Thm_C2_IdsIncrease ==
    /\ \A i, j \in DOMAIN issued : i < j => issued[i] < issued[j]
    /\ \A r1, r2 \in db.expenses : r1.id = r2.id => r1 = r2
    /\ \A r \in db.expenses : r.id \in Range(issued)
    /\ last.op = "add_expense" /\ last.resp.success =>
          /\ last.resp.expense # <<>>
          /\ last.resp.expense[1].id = issued[Len(issued)]
          /\ \A r \in db.expenses \ {last.resp.expense[1]} :
                r.id < last.resp.expense[1].id

\* C2 witness: the record with the highest id was deleted and the add that
\* followed got a new id, not the deleted one.
Wit_C2 ==
    /\ last.op = "add_expense"
    /\ last.resp.success
    /\ issued = <<1, 2>>
    /\ {r.id : r \in db.expenses} = {2}

\* l is s with every upper-case letter replaced by its lower-case letter
IsLowerCaseOf(l, s) ==
    /\ Len(l) = Len(s)
    /\ \A i \in DOMAIN s :
          IF s[i] \in UpperSet THEN l[i] = Lower[IndexIn(Upper, s[i])] ELSE l[i] = s[i]
\* t is s without the white space at its two ends
IsTrimOf(t, s) ==
    \E i \in 0..Len(s) :
        /\ i + Len(t) <= Len(s)
        /\ SubSeq(s, i + 1, i + Len(t)) = t
        /\ \A k \in (1..i) \cup ((i + Len(t) + 1)..Len(s)) : s[k] = " "
        /\ (t # <<>> => t[1] # " " /\ t[Len(t)] # " ")
InFixedSetIgnoringCase(s) == \E v \in ValidCategorySet : IsLowerCaseOf(v, s)
NonBlank(s) == \E i \in DOMAIN s : s[i] # " "

\* the four inputs <<amount, category, description, date>> are all valid
ValidAddInput(c) ==
    /\ c[1] # <<>> /\ PositiveFinite(c[1][1])
    /\ c[2] # <<>> /\ InFixedSetIgnoringCase(c[2][1])
    /\ c[3] # <<>> /\ NonBlank(c[3][1])
    /\ c[4] # <<>> /\ RealCalendarDate(c[4][1])

\* the limits a caller may pass: none, or a number in 1..1000
AllowedLimits == {l \in LimitArgs : l = <<>> \/ l[1] \in 1..1000}

\* x is listed before r: a later date, or the same date and a higher id
ListedBefore(x, r) ==
    \/ MakeDay(YearOf(x.date), MonthOf(x.date), DayOf(x.date))
          > MakeDay(YearOf(r.date), MonthOf(r.date), DayOf(r.date))
    \/ x.date = r.date /\ x.id > r.id

\* add_expense returned r, the record made of input c, and stored it
CreatedAndStored(c, out, r) ==
    /\ out.resp.success
    /\ out.saved
    /\ r.amount = c[1][1]
    /\ r.date = c[4][1]
    /\ IsLowerCaseOf(r.category, c[2][1])
    /\ IsTrimOf(r.description, c[3][1])
    /\ r.id \notin {x.id : x \in db.expenses}
    /\ out.db.expenses = db.expenses \cup {r}
    /\ out.file = out.db
AddReturnsCreated(c, out) ==
    /\ out.resp.expense # <<>>
    /\ CreatedAndStored(c, out, out.resp.expense[1])

\* r is in the list that get_expenses without filters returns from store d
InUnfilteredList(d, limit, r) ==
    r \in Range(getExpenses(d, d, <<>>, <<>>, <<>>, limit).resp.expenses)

AddValidationErrors == {ERR_AMOUNT, ERR_CATEGORY, ERR_DATE, ERR_DESCRIPTION}
\* the messages of the inputs of c that are invalid
ErrorsOfInvalidInputs(c) ==
    (IF c[1] # <<>> /\ PositiveFinite(c[1][1]) THEN {} ELSE {ERR_AMOUNT})
    \cup (IF InFixedSetIgnoringCase(c[2][1]) THEN {} ELSE {ERR_CATEGORY})
    \cup (IF c[3] # <<>> /\ NonBlank(c[3][1]) THEN {} ELSE {ERR_DESCRIPTION})
    \cup (IF c[4] # <<>> /\ RealCalendarDate(c[4][1]) THEN {} ELSE {ERR_DATE})
\* the outcome of a call that failed without touching memory or file
RejectedUntouched(out) ==
    /\ ~out.resp.success
    /\ out.resp.expense = <<>>
    /\ out.db = db
    /\ out.file = file
    /\ ~out.saved

StoredIds == {r.id : r \in db.expenses}
NoFields == <<<<>>, <<>>, <<>>, <<>>>>

\* new is old with exactly the supplied fields of c replaced
FieldsReplaced(c, old, new) ==
    /\ new.id = old.id
    /\ new.created_at = old.created_at
    /\ new.amount = IF c[1] # <<>> THEN c[1][1] ELSE old.amount
    /\ IF c[2] # <<>> THEN IsLowerCaseOf(new.category, c[2][1])
       ELSE new.category = old.category
    /\ IF c[3] # <<>> THEN IsTrimOf(new.description, c[3][1])
       ELSE new.description = old.description
    /\ new.date = IF c[4] # <<>> THEN c[4][1] ELSE old.date
UpdatedExactly(id, c, out) ==
    /\ c # NoFields
    /\ out.resp.expense # <<>>
    /\ out.resp.expense[1] \in out.db.expenses
    /\ \E old \in db.expenses :
          /\ old.id = id
          /\ FieldsReplaced(c, old, out.resp.expense[1])
          /\ out.db.expenses \ {out.resp.expense[1]} = db.expenses \ {old}
    /\ out.db.seq = db.seq
    /\ out.saved
    /\ out.file = out.db

\* C5: a successful update_expense(id, F) changes in record id exactly the
\* supplied fields (category in lower case, description trimmed), keeps the
\* other fields, the id and created_at, leaves every other record as it was
\* and returns the record as it is after the update.
Thm_C5_UpdateFrame ==
    \A id \in IdArgs, c \in UpdateFields :
        \E out \in {updateExpense(db, file, id, c[1], c[2], c[3], c[4])} :
            out.resp.success => UpdatedExactly(id, c, out)

\* C5 witness: an update succeeded on one of two records that were created
\* at different times, and changed the amount of a record whose date it kept.
Wit_C5 ==
    /\ last.op = "update_expense"
    /\ last.resp.success
    /\ Cardinality(db.expenses) = 2
    /\ \E r1, r2 \in db.expenses : r1.created_at # r2.created_at
    /\ last.resp.expense[1] \in db.expenses
    /\ last.resp.expense[1].amount = Num(20)
    /\ last.resp.expense[1].date = Date_0228

\* C6: update_expense and delete_expense with an id that is not in the
\* store fail with the not-found error of that id, whatever fields come with
\* it, and touch neither memory nor file.
Thm_C6_NotFound ==
    \A id \in IdArgs \ StoredIds :
        /\ \A other \in IdArgs \ {id} : ERR_NOT_FOUND(other) # ERR_NOT_FOUND(id)
        /\ \E out \in {deleteExpense(db, file, id)} :
              RejectedUntouched(out) /\ out.resp.error = ERR_NOT_FOUND(id)
        /\ \A c \in UpdateFields :
              \E out \in {updateExpense(db, file, id, c[1], c[2], c[3], c[4])} :
                  RejectedUntouched(out) /\ out.resp.error = ERR_NOT_FOUND(id)

\* C6 witness: an update of record 1 was answered not-found after record 1
\* had been deleted and while another record was stored.
Wit_C6 ==
    /\ last.op = "update_expense"
    /\ last.resp.error = ERR_NOT_FOUND(1)
    /\ 1 \in Range(issued)
    /\ db.expenses # {}

\* C7: update_expense on a stored id with no field supplied fails with the
\* empty-update error, a message that is no validation error and no
\* not-found error, and leaves memory and file as they were.
Thm_C7_EmptyUpdate ==
    /\ ERR_NO_FIELDS \notin
          AddValidationErrors \cup {ERR_START_DATE, ERR_END_DATE, ERR_TYPE}
              \cup {ERR_NOT_FOUND(id) : id \in IdArgs}
    /\ \A id \in StoredIds :
          \E out \in {updateExpense(db, file, id, <<>>, <<>>, <<>>, <<>>)} :
              RejectedUntouched(out) /\ out.resp.error = ERR_NO_FIELDS

\* C7 witness: an update without fields was rejected while two records were
\* stored.
Wit_C7 ==
    /\ last.op = "update_expense"
    /\ last.resp.error = ERR_NO_FIELDS
    /\ ~last.saved
    /\ Cardinality(db.expenses) = 2

\* record id is gone from store d: no list shows it, and a delete or an
\* update of it is answered not-found
Gone(d, id) ==
    /\ deleteExpense(d, d, id).resp.error = ERR_NOT_FOUND(id)
    /\ \A c \in UpdateFields :
          updateExpense(d, d, id, c[1], c[2], c[3], c[4]).resp.error = ERR_NOT_FOUND(id)
    /\ \A g \in GetCalls :
          \A r \in Range(getExpenses(d, d, g[1], g[2], g[3], g[4]).resp.expenses) :
              r.id # id
DeletedExactly(id, out) ==
    /\ out.resp.success
    /\ out.resp.expense # <<>>
    /\ out.resp.expense[1] \in db.expenses
    /\ out.resp.expense[1].id = id
    /\ out.db.expenses = db.expenses \ {out.resp.expense[1]}
    /\ out.db.seq = db.seq
    /\ out.saved
    /\ out.file = out.db
    /\ Gone(out.db, id)

DayNumber(date) == MakeDay(YearOf(date), MonthOf(date), DayOf(date))
\* the calls of get_expenses whose filters are all valid
ValidFilterCalls ==
    {g \in GetCalls : /\ g[1] \in StartDates
                      /\ g[2] \in EndDates
                      /\ g[3] \in CategoryFilters}
InDateRange(r, g) ==
    /\ g[1] = <<>> \/ DayNumber(r.date) >= DayNumber(g[1][1])
    /\ g[2] = <<>> \/ DayNumber(r.date) <= DayNumber(g[2][1])
\* the stored records that match g, the category compared in lower case
Matching(g) ==
    {r \in db.expenses :
        InDateRange(r, g) /\ (g[3] = <<>> \/ IsLowerCaseOf(r.category, g[3][1]))}
\* the stored records that match g, the category compared as it was passed
MatchingAsPassed(g) ==
    {r \in db.expenses : InDateRange(r, g) /\ (g[3] = <<>> \/ r.category = g[3][1])}
Candidates(g, M, out) ==
    /\ out.resp.success
    /\ Range(out.resp.expenses) \subseteq M
    /\ Cardinality(M) <= LimitOrDefault(g[4]) => Range(out.resp.expenses) = M

\* C9 as stated: get_expenses returns records that are on or after startDate,
\* on or before endDate and whose category equals the category passed, and
\* all of them when they are no more than the limit.
Cex_C9_CategoryAsPassed ==
    \A g \in ValidFilterCalls :
        \E out \in {getExpenses(db, file, g[1], g[2], g[3], g[4])} :
            Candidates(g, MatchingAsPassed(g), out)

\* C9: for every store content and every combination of valid filters,
\* get_expenses returns only records that are on or after startDate, on or
\* before endDate (both bounds inclusive) and whose category equals the
\* category passed in lower case, and returns all of them when they are no
\* more than the limit.
Thm_C9_FilterSemantics ==
    \A g \in ValidFilterCalls :
        \E out \in {getExpenses(db, file, g[1], g[2], g[3], g[4])} :
            Candidates(g, Matching(g), out)

\* C9 witness: a list returned the earlier of two stored records and not the
\* later one, which only a filter can do.
Wit_C9 ==
    /\ last.op = "get_expenses"
    /\ last.resp.success
    /\ last.resp.count = 1
    /\ last.resp.expenses[1].date = Date_0228
    /\ \E r \in db.expenses : r.date = Date_0301

Min(a, b) == IF a <= b THEN a ELSE b
\* list is the first n records of M in the order date descending, id
\* descending
FirstOfOrdered(list, M, n) ==
    /\ Len(list) = n
    /\ Range(list) \subseteq M
    /\ \A i, j \in DOMAIN list : i < j => ListedBefore(list[i], list[j])
    /\ \A r \in M \ Range(list) : \A i \in DOMAIN list : ListedBefore(list[i], r)
OrderedAndTruncated(g, M, out) ==
    /\ out.resp.success
    /\ FirstOfOrdered(out.resp.expenses, M, Min(LimitOrDefault(g[4]), Cardinality(M)))
    /\ out.resp.count = Len(out.resp.expenses)
    /\ out.resp.count <= LimitOrDefault(g[4])

\* C10: get_expenses returns the first min(limit, number of matches) of the
\* matching records in the order date descending, id descending; count is
\* the length of the list and never exceeds the limit the caller passed.
Cex_C10_OrderedTruncated ==
    \A g \in ValidFilterCalls :
        \E out \in {getExpenses(db, file, g[1], g[2], g[3], g[4])} :
            OrderedAndTruncated(g, Matching(g), out)

\* the same statement for the calls whose limit is absent or not negative
OrderedTruncated_NonNegativeLimit ==
    \A g \in ValidFilterCalls : (g[4] = <<>> \/ g[4][1] >= 0) =>
        \E out \in {getExpenses(db, file, g[1], g[2], g[3], g[4])} :
            OrderedAndTruncated(g, Matching(g), out)

(***************************************************************************)
(* The read operations: validation of their arguments.                     *)
(***************************************************************************)
\* a filter that was supplied and does not pass the validation of its field
InvalidDateFilter(v) == v # <<>> /\ ~RealCalendarDate(v[1])
InvalidCategoryFilter(v) == v # <<>> /\ ~InFixedSetIgnoringCase(v[1])
FilterTools == {"get_expenses", "get_spending_by_category", "export_to_csv"}
\* the filters <<startDate, endDate, category>> of the request answered last
FiltersAsked ==
    <<last.args[1], last.args[2],
      IF last.op = "get_spending_by_category" THEN <<>> ELSE last.args[3]>>
HasInvalidFilter(g) ==
    InvalidDateFilter(g[1]) \/ InvalidDateFilter(g[2]) \/ InvalidCategoryFilter(g[3])
FilterErrors == {ERR_START_DATE, ERR_END_DATE, ERR_CATEGORY}
RejectedAsInvalidFilter == ~last.resp.success /\ last.resp.error \in FilterErrors

\* C11 as stated: in get_expenses, get_spending_by_category and
\* export_to_csv a supplied startDate, endDate or category that does not pass
\* validation, the empty string included, makes the call fail with a
\* validation error and return no records.
Cex_C11_InvalidFilterRejected ==
    last.op \in FilterTools /\ HasInvalidFilter(FiltersAsked) => RejectedAsInvalidFilter

\* the same statement for the calls none of whose filters is the empty string
InvalidFilterRejected_NotEmptyText ==
    /\ last.op \in FilterTools
    /\ HasInvalidFilter(FiltersAsked)
    /\ \A i \in 1..3 : FiltersAsked[i] # EmptyText
    => RejectedAsInvalidFilter

\* the limits get_expenses is specified for
LimitInRange(l) == l[1] \in 1..1000
\* the answer is the one get_expenses gives for the same filters and limit l
AnswersAsWithLimit(l) ==
    \E out \in {getExpenses(db, file, last.args[1], last.args[2], last.args[3], l)} :
        last.resp = out.resp

\* C12 as stated: get_expenses with a limit outside 1..1000 fails with a
\* validation error instead of running the query, and with no limit it uses
\* 100.
Cex_C12_LimitValidated ==
    last.op = "get_expenses" /\ ~HasInvalidFilter(FiltersAsked) =>
        IF last.args[4] = <<>> THEN AnswersAsWithLimit(<<100>>)
        ELSE LimitInRange(last.args[4]) \/ ~last.resp.success

\* the part of it about the limit that is not supplied
NoLimitIsHundred ==
    last.op = "get_expenses" /\ last.args[4] = <<>> => AnswersAsWithLimit(<<100>>)

(***************************************************************************)
(* get_spending_by_category.                                               *)
(***************************************************************************)
RECURSIVE AmountsUpTo(_, _)
\* the amounts of the records of S with ids 1..n, added up
AmountsUpTo(S, n) ==
    IF n = 0 THEN 0
    ELSE AmountsUpTo(S, n - 1)
             + (IF \E r \in S : r.id = n THEN (CHOOSE r \in S : r.id = n).amount.val
                ELSE 0)
TotalOf(S) == AmountsUpTo(S, db.seq)
LeastOf(S) == CHOOSE r \in S : \A o \in S : r.amount.val <= o.amount.val
GreatestOf(S) == CHOOSE r \in S : \A o \in S : r.amount.val >= o.amount.val

\* a breakdown was asked for with dates that are valid where supplied
BreakdownAsked ==
    /\ last.op = "get_spending_by_category"
    /\ ~HasInvalidFilter(FiltersAsked)
\* the stored records in the date range asked for
InRangeAsked == {r \in db.expenses : InDateRange(r, last.args)}
OfCategory(M, c) == {r \in M : r.category = c}
\* groups holds exactly one group for each category that occurs in M
OneGroupPerCategory(groups, M) ==
    /\ \A i, j \in DOMAIN groups : i # j => groups[i].category # groups[j].category
    /\ {groups[i].category : i \in DOMAIN groups} = {r.category : r \in M}
\* count, sum, minimum and maximum of the group g are those of the records G
GroupFigures(g, G) ==
    /\ g.transaction_count = Cardinality(G)
    /\ g.total_amount = TotalOf(G)
    /\ g.min_amount = LeastOf(G).amount.val
    /\ g.max_amount = GreatestOf(G).amount.val
GroupsAndTotal(resp, M) ==
    /\ resp.success
    /\ OneGroupPerCategory(resp.categories, M)
    /\ \A i \in DOMAIN resp.categories :
          GroupFigures(resp.categories[i], OfCategory(M, resp.categories[i].category))
    /\ resp.total_spending = TotalOf(M)
\* average_amount times transaction_count is total_amount, in the doubles
\* JavaScript computes with
AverageTimesCount(g) ==
    Times(g.average_amount, g.transaction_count) = DoubleOfInt(g.total_amount)
\* average_amount is the double that total_amount / transaction_count gives
AverageIsQuotient(g) ==
    /\ g.average_amount = Divide(g.total_amount, g.transaction_count)
    /\ g.total_amount % g.transaction_count = 0 =>
          g.average_amount = DoubleOfInt(g.total_amount \div g.transaction_count)

\* C13 as stated: the breakdown has one group per category with a matching
\* record, with the count, sum, minimum and maximum of its records, with
\* average_amount times transaction_count equal to total_amount, and
\* total_spending is the sum over all matching records.
Cex_C13_AverageTimesCount ==
    BreakdownAsked =>
        /\ GroupsAndTotal(last.resp, InRangeAsked)
        /\ \A i \in DOMAIN last.resp.categories :
              AverageTimesCount(last.resp.categories[i])

\* C13: the breakdown has one group per category with a matching record,
\* with the count, sum, minimum and maximum of its records; average_amount is
\* total_amount divided by transaction_count in double precision, which is
\* the exact mean whenever the count divides the sum; total_spending is the
\* sum over all matching records.
Thm_C13_Breakdown ==
    BreakdownAsked =>
        /\ GroupsAndTotal(last.resp, InRangeAsked)
        /\ \A i \in DOMAIN last.resp.categories :
              AverageIsQuotient(last.resp.categories[i])

\* the breakdown of food 10, food 20 and transport 30 from 2024-02-28 on:
\* two groups of 30, the one of food with count 2 and average 15
Wit_C13 ==
    /\ BreakdownAsked
    /\ db = ThreeRecords
    /\ last.args = <<<<Date_0228>>, <<>>>>
    /\ last.resp.total_spending = 60
    /\ \E i \in DOMAIN last.resp.categories :
          /\ last.resp.categories[i].category = Str_food
          /\ last.resp.categories[i].transaction_count = 2
          /\ last.resp.categories[i].total_amount = 30
          /\ last.resp.categories[i].average_amount = DoubleOfInt(15)
    /\ \E i \in DOMAIN last.resp.categories :
          /\ last.resp.categories[i].category = Str_transport
          /\ last.resp.categories[i].average_amount = DoubleOfInt(30)

RECURSIVE NumberOfDigits(_, _)
\* the number the first n characters of text write in decimal
NumberOfDigits(text, n) ==
    IF n = 0 THEN 0 ELSE 10 * NumberOfDigits(text, n - 1) + DigitVal(text[n])
\* text writes a number with exactly two decimals
IsTwoDecimals(text) ==
    /\ Len(text) >= 4
    /\ \A i \in DOMAIN text :
          IF i = Len(text) - 2 THEN text[i] = "." ELSE text[i] \in DigitSet
\* the number text writes, in hundredths
HundredthsOfText(text) ==
    NumberOfDigits(SubSeq(text, 1, Len(text) - 3) \o SubSeq(text, Len(text) - 1, Len(text)),
                   Len(text) - 1)
\* 100 * t / T rounded to two decimals, in hundredths, a half rounded up
RoundedShare(t, T) == (20000 * t + T) \div (2 * T)
\* the percentage of the group g is 100 * total_amount / T rounded to two
\* decimals, or the literal 0 when T is zero
PercentageAsStated(g, T) ==
    IF T > 0
    THEN /\ IsTwoDecimals(g.percentage.text)
         /\ HundredthsOfText(g.percentage.text) = RoundedShare(g.total_amount, T)
    ELSE g.percentage = NumberValue(<<"0">>)
\* the percentage of the group g is within half a hundredth of
\* 100 * total_amount / T
PercentageNearest(g, T) ==
    /\ T > 0
    /\ g.percentage.type = "string"
    /\ IsTwoDecimals(g.percentage.text)
    /\ \E h \in {HundredthsOfText(g.percentage.text)} :
          /\ 2 * (h * T - 10000 * g.total_amount) <= T
          /\ 2 * (10000 * g.total_amount - h * T) <= T
Str_50_00 == <<"5", "0", ".", "0", "0">>
\* two groups of equal sum have the percentages 50.00 and 50.00
EqualHalves(groups) ==
    Len(groups) = 2 /\ groups[1].total_amount = groups[2].total_amount =>
        groups[1].percentage.text = Str_50_00 /\ groups[2].percentage.text = Str_50_00

\* C14 as stated: each group's percentage is 100 * total_amount /
\* total_spending rounded to two decimal places when total_spending > 0 and
\* the literal 0 when total_spending is zero; two groups of equal sum have
\* 50.00 and 50.00.
Cex_C14_PercentageRounded ==
    BreakdownAsked =>
        /\ \A i \in DOMAIN last.resp.categories :
              PercentageAsStated(last.resp.categories[i], last.resp.total_spending)
        /\ EqualHalves(last.resp.categories)

\* what holds of the percentages: each is a text with two decimals within
\* half a hundredth of the share, and two equal groups have 50.00 each
PercentageWithinHalfHundredth ==
    BreakdownAsked =>
        /\ \A i \in DOMAIN last.resp.categories :
              PercentageNearest(last.resp.categories[i], last.resp.total_spending)
        /\ EqualHalves(last.resp.categories)

\* exact halves of a hundredth are rounded up in one breakdown (3.125 of
\* 1 in 32 is reported as 3.13) and down in another (14.375 of 23 in 160 is
\* reported as 14.37)
HalvesRoundedOneWay ==
    BreakdownAsked /\ last.args = <<<<>>, <<>>>> =>
        /\ db = ThirtySeconds =>
              \E i \in DOMAIN last.resp.categories :
                  last.resp.categories[i].percentage.text = <<"3", ".", "1", "3">>
        /\ db = UnevenShares =>
              \E i \in DOMAIN last.resp.categories :
                  last.resp.categories[i].percentage.text = <<"1", "4", ".", "3", "7">>

(***************************************************************************)
(* get_monthly_summary.                                                    *)
(***************************************************************************)
SummaryAsked == last.op = "get_monthly_summary"
YearAsked == last.args[1][1]
MonthAsked == last.args[2][1]
\* the year and the month asked for are whole numbers in 2000..2100 and 1..12
ValidMonthAsked ==
    /\ SummaryAsked
    /\ last.args[1] # <<>> /\ YearAsked \in 2000..2100
    /\ last.args[2] # <<>> /\ MonthAsked \in 1..12
\* the days a month has: 30 in April, June, September and November, 28 in
\* February and 29 in a leap year, 31 otherwise
MonthLength(y, m) ==
    IF m \in {4, 6, 9, 11} THEN 30
    ELSE IF m # 2 THEN 31
    ELSE IF y % 400 = 0 \/ (y % 4 = 0 /\ y % 100 # 0) THEN 29
    ELSE 28
\* YYYY-MM-DD
DateText(y, m, d) == Pad4(y) \o <<"-">> \o Pad2(m) \o <<"-">> \o Pad2(d)
PeriodText(y, m) ==
    DateText(y, m, 1) \o <<" ", "t", "o", " ">> \o DateText(y, m, MonthLength(y, m))
\* the stored records dated in the month m of the year y
InMonth(y, m) ==
    {r \in db.expenses :
        /\ DayNumber(r.date) >= MakeDay(y, m, 1)
        /\ DayNumber(r.date) <= MakeDay(y, m, MonthLength(y, m))}
\* groups holds one entry per category of M, with its count and sum
CategoryBreakdownOf(groups, M) ==
    /\ OneGroupPerCategory(groups, M)
    /\ \A i \in DOMAIN groups :
          /\ groups[i].transaction_count =
                 Cardinality(OfCategory(M, groups[i].category))
          /\ groups[i].total_amount = TotalOf(OfCategory(M, groups[i].category))
OnDate(M, date) == {r \in M : r.date = date}
\* days holds one entry per date of M, with its count and sum
DailyBreakdownOf(days, M) ==
    /\ \A i, j \in DOMAIN days : i # j => days[i].date # days[j].date
    /\ {days[i].date : i \in DOMAIN days} = {r.date : r \in M}
    /\ \A i \in DOMAIN days :
          /\ days[i].transaction_count = Cardinality(OnDate(M, days[i].date))
          /\ days[i].total_amount = TotalOf(OnDate(M, days[i].date))
SummaryCovers(resp, M) ==
    /\ resp.summary.total_transactions = Cardinality(M)
    /\ resp.summary.total_spending = TotalOf(M)
    /\ CategoryBreakdownOf(resp.category_breakdown, M)
    /\ DailyBreakdownOf(resp.daily_spending, M)

\* C15: for every year in 2000..2100 and month in 1..12 the summary reports
\* the period from the first to the last calendar day of the month, and its
\* totals, category breakdown and daily breakdown cover exactly the records
\* dated in that period, bounds included.
Thm_C15_MonthPeriod ==
    ValidMonthAsked =>
        /\ last.resp.success
        /\ last.resp.period = PeriodText(YearAsked, MonthAsked)
        /\ SummaryCovers(last.resp, InMonth(YearAsked, MonthAsked))

\* February 2024 over records of 31 January, 1 and 29 February and 1 March:
\* the period ends on the 29th and holds the two records of February
Wit_C15 ==
    /\ ValidMonthAsked
    /\ db = MonthEnds
    /\ YearAsked = 2024 /\ MonthAsked = 2
    /\ last.resp.period =
          <<"2", "0", "2", "4", "-", "0", "2", "-", "0", "1", " ", "t", "o", " ",
            "2", "0", "2", "4", "-", "0", "2", "-", "2", "9">>
    /\ last.resp.summary.total_transactions = 2
    /\ last.resp.summary.total_spending = 90
    /\ Len(last.resp.daily_spending) = 2

\* the argument is missing or a whole number outside low..high
MissingOrOutside(arg, low, high) == arg = <<>> \/ arg[1] \notin low..high
FailedWith(error) == ~last.resp.success /\ last.resp.error = error
\* what a get_monthly_summary request must be answered with
SummaryAnswer ==
    IF MissingOrOutside(last.args[1], 2000, 2100) THEN FailedWith(ERR_YEAR)
    ELSE IF MissingOrOutside(last.args[2], 1, 12) THEN FailedWith(ERR_MONTH)
    ELSE last.resp.success

\* C16: get_monthly_summary fails with a validation error when year is
\* missing or outside 2000..2100 or month is missing or outside 1..12, and
\* succeeds for every year in 2000..2100 with every month in 1..12; either
\* way the store in memory and the file are left as they were.
Thm_C16_SummaryValidation ==
    [][SummaryAsked' => SummaryAnswer' /\ db' = db /\ file' = file]_vars

\* month 13 of 2024 asked of a store with three records
Wit_C16 ==
    /\ SummaryAsked
    /\ db = ThreeRecords
    /\ last.args = <<<<2024>>, <<13>>>>
    /\ FailedWith(ERR_MONTH)

\* no stored record is dated in the month asked for
EmptyMonthAsked == ValidMonthAsked /\ InMonth(YearAsked, MonthAsked) = {}
\* the summary of no records: zero totals and empty breakdowns
EmptySummary(resp) ==
    /\ resp.success
    /\ resp.summary.total_transactions = 0
    /\ resp.summary.total_spending = 0
    /\ resp.summary.average_transaction = ZeroDouble
    /\ resp.category_breakdown = <<>>
    /\ resp.daily_spending = <<>>

\* C17: get_monthly_summary for a valid month in which no record is dated
\* succeeds with total_transactions 0, total_spending 0, average_transaction
\* 0 and empty category_breakdown and daily_spending, whatever records other
\* months hold.
Thm_C17_EmptyMonth == EmptyMonthAsked => EmptySummary(last.resp)

\* January 2024 asked of a store whose records are of February and March
Wit_C17 ==
    /\ EmptyMonthAsked
    /\ db = ThreeRecords
    /\ YearAsked = 2024 /\ MonthAsked = 1
    /\ EmptySummary(last.resp)

(***************************************************************************)
(* export_to_csv.                                                          *)
(***************************************************************************)
ExportAsked == last.op = "export_to_csv"
\* the place p of csv lies outside a quoted field
OutsideQuotes(csv, p) == Cardinality({i \in 1..(p - 1) : csv[i] = "\""}) % 2 = 0
\* the places where a row of csv ends and another one begins
RowBreaks(csv) ==
    {p \in 1..(Len(csv) - 1) : csv[p] = "\n" /\ OutsideQuotes(csv, p)}
\* the place where the j-th data row of csv begins
RowStart(csv, j) ==
    1 + CHOOSE p \in RowBreaks(csv) :
            Cardinality({q \in RowBreaks(csv) : q < p}) = j - 1
StartsWith(csv, p, text) ==
    p + Len(text) - 1 <= Len(csv) /\ SubSeq(csv, p, p + Len(text) - 1) = text
\* csv is the header row followed by one data row per record of list, in
\* the order of list, each beginning with the id of its record
OneRowPerRecord(csv, list) ==
    /\ StartsWith(csv, 1, CSV_HEADER)
    /\ Cardinality(RowBreaks(csv)) = Len(list)
    /\ \A j \in DOMAIN list :
          StartsWith(csv, RowStart(csv, j), DecimalText(list[j].id) \o <<",">>)
\* the answer is what get_expenses with the same filters and the limit of
\* the export gives: its error, or its count and its records as rows
ExportsWhatIsListed ==
    \E out \in {getExpenses(db, file, last.args[1], last.args[2], last.args[3],
                             <<EXPORT_LIMIT>>)} :
        IF out.resp.success
        THEN /\ last.resp.success
             /\ last.resp.count = out.resp.count
             /\ OneRowPerRecord(last.resp.csv, out.resp.expenses)
        ELSE ~last.resp.success /\ last.resp.error = out.resp.error
\* the j-th of the records M in the order date descending, id descending
NthListed(M, j) ==
    CHOOSE r \in M : Cardinality({x \in M : ListedBefore(x, r)}) = j - 1
\* count is the number of the records M, as far as the limit of the export
\* goes, and the rows are those records in order
ExportsAll(M) ==
    /\ last.resp.success
    /\ last.resp.count = Min(EXPORT_LIMIT, Cardinality(M))
    /\ Cardinality(RowBreaks(last.resp.csv)) = last.resp.count
    /\ \A j \in 1..last.resp.count :
          StartsWith(last.resp.csv, RowStart(last.resp.csv, j),
                     DecimalText(NthListed(M, j).id) \o <<",">>)

WriteTools == {"add_expense", "update_expense", "delete_expense"}
\* the write reported success with its change in the file
SavedBeforeSuccess ==
    last.op \in WriteTools /\ last.resp.success => last.saved /\ file = db
\* the stores one write operation that reaches its saveDatabase makes of d
WritesInFlight(d, f, t) ==
    {out.db : out \in
        {o \in {addExpense(d, f, t, c[1], c[2], c[3], c[4]) : c \in AddCalls}
                \cup {updateExpense(d, f, id, c[1], c[2], c[3], c[4]) :
                        id \in IdArgs, c \in UpdateFields}
                \cup {deleteExpense(d, f, id) : id \in IdArgs} : o.saved}}
\* a restart finds the store as the last answered request left it, or with
\* the change of the one write that was cut off
RestartKeepsStore ==
    last'.op = "restart" => db' = db \/ db' \in WritesInFlight(db, file, now)
\* an add is given an id above every id given before
AddAboveIssued ==
    last'.op = "add_expense" /\ last'.resp.success =>
        \A i \in DOMAIN issued : issued[i] < last'.resp.expense[1].id

\* C19 as stated: a write that reports success has its change in the file,
\* so that after the process ends at any point and starts again the store
\* holds the effect of every write that reported success, and ids given
\* after the restart are above every id given before it.
Cex_C19_DurableAcrossCrash ==
    [][SavedBeforeSuccess' /\ RestartKeepsStore /\ AddAboveIssued]_vars

\* the same statement, which holds while no saveDatabase is cut off inside
\* writeFileSync
DurableWithWholeSaves ==
    [][SavedBeforeSuccess' /\ RestartKeepsStore /\ AddAboveIssued]_vars

(***************************************************************************)
(* The call handler.                                                       *)
(***************************************************************************)
SevenTools ==
    {"add_expense", "get_expenses", "get_spending_by_category", "get_monthly_summary",
     "update_expense", "delete_expense", "export_to_csv"}
\* {success: true, ...data}, without the error flag
SuccessResponse == last.resp.success /\ last.resp.error = "" /\ ~last.isError
\* {success: false, error: message}, with the error flag
ErrorResponse ==
    /\ ~last.resp.success
    /\ last.resp.error # ""
    /\ last.resp = Failure(last.resp.error)
    /\ last.isError
\* the request was answered in one of the two forms
Answered == SuccessResponse \/ ErrorResponse
\* a name outside the seven tools is answered with the unknown-tool error
UnknownToolAnswer ==
    last.op \notin SevenTools => ErrorResponse /\ last.resp.error = ERR_UNKNOWN_TOOL(last.op)

\* C20: every tool call is answered with {success: true, ...} or with
\* {success: false, error: message} and the error flag; a thrown error is
\* always answered in the second form, and a tool name outside the seven
\* operations gets the unknown-tool error and leaves memory and file alone.
Thm_C20_UniformResponses ==
    [][/\ Answered'
       /\ UnknownToolAnswer'
       /\ last'.op \notin SevenTools => db' = db /\ file' = file]_vars

\* the tool get_balance asked of a server that holds a record
Wit_C20 ==
    /\ last.op = "get_balance"
    /\ db.expenses # {}
    /\ ErrorResponse
    /\ last.resp.error = "Unknown tool: get_balance"

(***************************************************************************)
(* isValidDate, applied to one text.                                       *)
(***************************************************************************)
Date_20241103 == <<"2", "0", "2", "4", "-", "1", "1", "-", "0", "3">>
\* texts of the form YYYY-MM-DD, with months 00..13 and days 00..32
ShapedDates ==
    {DateText(y, m, d) : y \in {0, 1900, 2000, 2023, 2024, 2100, 9999},
                         m \in 0..13, d \in 0..32}
\* texts of other forms
UnshapedDates ==
    {<<>>, Date_slashes,
     <<"2", "0", "2", "4", "-", "1", "-", "0", "3">>,
     <<"2", "0", "2", "4", "-", "1", "1", "-", "3">>,
     <<"2", "0", "2", "4", "/", "1", "1", "/", "0", "3">>,
     <<"2", "0", "2", "4", "1", "1", "0", "3">>,
     <<"2", "0", "2", "4", "-", "1", "1", "-", "0", "3", " ">>,
     <<" ", "2", "0", "2", "4", "-", "1", "1", "-", "0", "3">>,
     <<"2", "0", "2", "4", "-", "1", "1", "-", "0", "3", "T">>,
     <<"2", "0", "2", "4", "-", "1", "1", "-", "0", "x">>,
     <<"x", "0", "2", "4", "-", "1", "1", "-", "0", "3">>,
     <<"2", "0", "2", "4", "-", "1", "1", " ", "0", "3">>,
     <<"0", "3", "-", "1", "1", "-", "2", "0", "2", "4">>}
DateTexts == ShapedDates \cup UnshapedDates

\* a text is given to isValidDate
InitValidate ==
    /\ db = EmptyDatabase
    /\ file = saveDatabase(EmptyDatabase)
    /\ now = 0
    /\ issued = <<>>
    /\ \E s \in DateTexts :
          last = [op |-> "none", args |-> s, resp |-> FALSE, saved |-> FALSE,
                  isError |-> FALSE]

ValidateDate ==
    /\ last.op = "none"
    /\ last' = [last EXCEPT !.op = "isValidDate", !.resp = isValidDate(<<last.args>>)]
    /\ UNCHANGED <<db, file, now, issued>>

NextValidate == ValidateDate

SpecValidate == InitValidate /\ [][NextValidate]_vars

DateValidated == last.op = "isValidDate"

\* C21: isValidDate(s) is true exactly when s is four digits, a hyphen, two
\* digits, a hyphen and two digits and names a day of the calendar (month
\* 01..12, day within the month, 29 February in leap years only); it is true
\* for 2024-11-03 and false for 2024-13-01, 2024-02-30 and 11/03/2024.
Thm_C21_ValidDate ==
    DateValidated =>
        /\ last.resp <=> RealCalendarDate(last.args)
        /\ last.args = Date_20241103 => last.resp
        /\ last.args \in {Date_1301, Date_0230, Date_slashes} => ~last.resp

\* 2024-02-30, which new Date() reads as 1 March 2024, is not valid
Wit_C21 ==
    /\ DateValidated
    /\ last.args = Date_0230
    /\ DateParse(last.args) = <<MakeDay(2024, 3, 1)>>
    /\ ~last.resp

(***************************************************************************)
(* update_expense: all fields or none.                                     *)
(***************************************************************************)
UpdateAsked == last.op = "update_expense"
\* one of the fields <<amount, category, description, date>> supplied in c
\* is not valid
HasInvalidField(c) ==
    \/ c[2] # <<>> /\ ~PositiveFinite(c[2][1])
    \/ c[3] # <<>> /\ ~InFixedSetIgnoringCase(c[3][1])
    \/ c[4] # <<>> /\ ~NonBlank(c[4][1])
    \/ c[5] # <<>> /\ ~RealCalendarDate(c[5][1])

\* C22: an update_expense with at least one supplied field that fails
\* validation fails and changes no field of any record, in memory or in the
\* file, also when valid fields stand before the invalid one.
Thm_C22_UpdateAllOrNothing ==
    [][UpdateAsked' /\ HasInvalidField(last'.args) =>
          ~last'.resp.success /\ db' = db /\ file' = file]_vars

\* a valid amount with the date 2024-02-30 for record 1, whose amount is
\* still 10 afterwards
Wit_C22 ==
    /\ UpdateAsked
    /\ db = ThreeRecords
    /\ last.args = <<1, <<Num(20)>>, <<>>, <<>>, <<Date_0230>>>>
    /\ last.resp.error = ERR_DATE
    /\ \E r \in db.expenses : r.id = 1 /\ r.amount = Num(10)

(***************************************************************************)
(* The order of the groups.                                                *)
(***************************************************************************)
\* of every two adjacent groups the earlier has the total not below the
\* later one's
TotalsDescending(groups) ==
    \A i \in 1..(Len(groups) - 1) : groups[i].total_amount >= groups[i + 1].total_amount

\* C23: the groups of get_spending_by_category and the category_breakdown of
\* get_monthly_summary are in the order of total_amount descending.
Thm_C23_GroupsByTotal ==
    /\ last.op = "get_spending_by_category" /\ last.resp.success =>
          TotalsDescending(last.resp.categories)
    /\ SummaryAsked /\ last.resp.success =>
          TotalsDescending(last.resp.category_breakdown)

\* the breakdown of six records: food with 130, then other with 50, then
\* bills with 30
Wit_C23 ==
    /\ last.op = "get_spending_by_category"
    /\ db = MonthEnds
    /\ last.args = <<<<>>, <<>>>>
    /\ Len(last.resp.categories) = 3
    /\ last.resp.categories[1].category = Str_food
    /\ last.resp.categories[1].total_amount = 130
    /\ last.resp.categories[2].category = Str_other
    /\ last.resp.categories[3].category = Str_bills

(***************************************************************************)
(* The daily breakdown.                                                    *)
(***************************************************************************)
\* every entry is of a later day than the entry before it
DatesAscending(days) ==
    \A i \in 1..(Len(days) - 1) : DayNumber(days[i].date) < DayNumber(days[i + 1].date)

\* C24: daily_spending has exactly one entry per date on which a record of
\* the month is dated, with the count and the sum of the records of that
\* date, the entries in strictly ascending order of date, also when there is
\* one such date only.
Thm_C24_DailySpending ==
    ValidMonthAsked =>
        /\ last.resp.success
        /\ DailyBreakdownOf(last.resp.daily_spending, InMonth(YearAsked, MonthAsked))
        /\ DatesAscending(last.resp.daily_spending)

\* March 2024 over two records of 1 March and one of February: one entry
Wit_C24 ==
    /\ ValidMonthAsked
    /\ db = ThreeRecords
    /\ YearAsked = 2024 /\ MonthAsked = 3
    /\ last.resp.daily_spending =
          <<[date |-> Date_0301, transaction_count |-> 2, total_amount |-> 50]>>

(***************************************************************************)
(* Two tool calls dispatched together.  The handler of index.js and the    *)
(* operations it calls are synchronous: there is no await between the      *)
(* first statement of an operation and its return, so the event loop runs  *)
(* the handler of one request to its end before it starts another.  Here   *)
(* the statements of an operation are steps of their own, and `last` keeps *)
(* the two calls, where each of them stands, and its answer.               *)
(***************************************************************************)
AddCall(amount, category, description, date) ==
    [tool |-> "add_expense", id |-> 0, fields |-> <<amount, category, description, date>>]
UpdateCall(id, amount, category, description, date) ==
    [tool |-> "update_expense", id |-> id,
     fields |-> <<amount, category, description, date>>]
DeleteCall(id) ==
    [tool |-> "delete_expense", id |-> id, fields |-> <<<<>>, <<>>, <<>>, <<>>>>]
ConcurrentCalls ==
    {AddCall(<<Num(10)>>, <<Str_Food>>, <<Str_tea>>, <<Date_0228>>),
     AddCall(<<Num(20)>>, <<Str_bills>>, <<Str_bus_padded>>, <<Date_0301>>),
     AddCall(<<Num(0)>>, <<Str_Food>>, <<Str_tea>>, <<Date_0228>>),
     UpdateCall(1, <<Num(20)>>, <<>>, <<>>, <<>>),
     UpdateCall(1, <<>>, <<Str_BILLS>>, <<>>, <<Date_0230>>),
     DeleteCall(1)}
ConcurrentStores ==
    {Store({}), Store({Row(1, 10, Str_food, Date_0228)}), ThreeRecords}

\* the operation c run in one piece on the database d
RunWhole(c, d, f, t) ==
    IF c.tool = "add_expense"
    THEN addExpense(d, f, t, c.fields[1], c.fields[2], c.fields[3], c.fields[4])
    ELSE IF c.tool = "update_expense"
    THEN updateExpense(d, f, c.id, c.fields[1], c.fields[2], c.fields[3], c.fields[4])
    ELSE deleteExpense(d, f, c.id)
\* db.run(...) of the operation c on the database d
RunStatement(c, d, t) ==
    IF c.tool = "add_expense"
    THEN Insert(d, c.fields[1][1], toLowerCase(c.fields[2][1]), trim(c.fields[3][1]),
                c.fields[4][1], t)
    ELSE IF c.tool = "update_expense"
    THEN Update(d, UpdateSets(c.fields[1], c.fields[2], c.fields[3], c.fields[4]), c.id)
    ELSE Delete(d, c.id)
\* the response the operation c returns: the row it reads back from d, or
\* for deleteExpense the row it read before the DELETE
ReadBackResponse(c, d, held) ==
    IF c.tool = "add_expense" THEN Added(d).resp
    ELSE IF c.tool = "update_expense" THEN Updated(d, c.id).resp
    ELSE held

InitConcurrent ==
    /\ db \in ConcurrentStores
    /\ file = saveDatabase(db)
    /\ now = 0
    /\ issued = Counting(db.seq)
    /\ \E c1 \in ConcurrentCalls, c2 \in ConcurrentCalls :
          last = [op |-> "dispatch", calls |-> <<c1, c2>>,
                  at |-> <<"pending", "pending">>,
                  resp |-> <<Failure(""), Failure("")>>,
                  order |-> <<>>, first |-> db]

\* no handler is on the call stack
Idle_Always == TRUE
Idle == \A q \in DOMAIN last.calls : last.at[q] \in {"pending", "done"}

\* the handler of request r starts: the look-up of the row and the
\* validation of the arguments, which throw or let the operation go on
CheckStep(r) ==
    /\ Idle
    /\ last.at[r] = "pending"
    /\ \E out \in {RunWhole(last.calls[r], db, file, now)} :
          last' = [last EXCEPT !.at[r] = IF out.thrown THEN "done" ELSE "checked",
                               !.resp[r] = out.resp,
                               !.order = Append(@, r)]
    /\ UNCHANGED <<db, file, now, issued>>

\* db.run(INSERT / UPDATE / DELETE)
MutateStep(r) ==
    /\ last.at[r] = "checked"
    /\ db' = RunStatement(last.calls[r], db, now)
    /\ last' = [last EXCEPT !.at[r] = "mutated"]
    /\ now' = IF last.calls[r].tool = "add_expense" THEN Tick(now) ELSE now
    /\ issued' = IF last.calls[r].tool = "add_expense"
                 THEN Append(issued, NextRowid(db)) ELSE issued
    /\ UNCHANGED file

\* saveDatabase()
PersistStep(r) ==
    /\ last.at[r] = "mutated"
    /\ file' = saveDatabase(db)
    /\ last' = [last EXCEPT !.at[r] = "persisted"]
    /\ UNCHANGED <<db, now, issued>>

\* the SELECT that reads the row back, and the return
ReadBackStep(r) ==
    /\ last.at[r] = "persisted"
    /\ last' = [last EXCEPT !.at[r] = "done",
                             !.resp[r] = ReadBackResponse(last.calls[r], db, last.resp[r])]
    /\ UNCHANGED <<db, file, now, issued>>

NextConcurrent ==
    \E r \in DOMAIN last.calls :
        CheckStep(r) \/ MutateStep(r) \/ PersistStep(r) \/ ReadBackStep(r)

SpecConcurrent == InitConcurrent /\ [][NextConcurrent]_vars

\* at most one operation is between its first step and its return
OneAtATime ==
    \A q, r \in DOMAIN last.calls :
        q # r => last.at[q] \in {"pending", "done"} \/ last.at[r] \in {"pending", "done"}
AddAnswered(r) ==
    /\ last.at[r] = "done"
    /\ last.calls[r].tool = "add_expense"
    /\ last.resp[r].success
\* the record the add r returns is the one made of its own arguments
ReturnsOwnRecord(r) ==
    /\ last.resp[r].expense # <<>>
    /\ last.resp[r].expense[1].amount = last.calls[r].fields[1][1]
    /\ IsLowerCaseOf(last.resp[r].expense[1].category, last.calls[r].fields[2][1])
    /\ IsTrimOf(last.resp[r].expense[1].description, last.calls[r].fields[3][1])
    /\ last.resp[r].expense[1].date = last.calls[r].fields[4][1]
\* the clock after the operation c has run at time t with the outcome out
ClockAfter(c, out, t) ==
    IF c.tool = "add_expense" /\ out.resp.success THEN Tick(t) ELSE t
\* both requests are answered, and the answers and the store are those of
\* running the first operation whole and then the second
RunOneAfterTheOther ==
    (\A r \in DOMAIN last.calls : last.at[r] = "done")
    => \E o1 \in {RunWhole(last.calls[last.order[1]], last.first, last.first, 0)} :
         \E o2 \in {RunWhole(last.calls[last.order[2]], o1.db, o1.file,
                              ClockAfter(last.calls[last.order[1]], o1, 0))} :
             /\ last.resp[last.order[1]] = o1.resp
             /\ last.resp[last.order[2]] = o2.resp
             /\ db = o2.db
             /\ file = o2.file

\* C25: of tool calls dispatched together the operations never interleave:
\* the steps of one (check and validate, mutate, persist, read back) all run
\* before any step of another, so that the answers and the store are those
\* of the operations run one after the other; two add_expense calls get two
\* distinct ids and each returns the record it inserted itself.
Thm_C25_NoInterleaving ==
    last.op = "dispatch" =>
        /\ OneAtATime
        /\ RunOneAfterTheOther
        /\ \A r \in DOMAIN last.calls : AddAnswered(r) => ReturnsOwnRecord(r)
        /\ \A q, r \in DOMAIN last.calls :
              q # r /\ AddAnswered(q) /\ AddAnswered(r) =>
                  last.resp[q].expense[1].id # last.resp[r].expense[1].id

\* two adds dispatched together to a store of three records: ids 4 and 5,
\* the one of amount 10 answered with its own record
Wit_C25 ==
    /\ last.op = "dispatch"
    /\ \A r \in DOMAIN last.calls : AddAnswered(r)
    /\ last.first = ThreeRecords
    /\ last.calls[1].fields[1] = <<Num(10)>>
    /\ last.calls[2].fields[1] = <<Num(20)>>
    /\ last.order = <<2, 1>>
    /\ last.resp[2].expense[1].id = 4
    /\ last.resp[1].expense[1].id = 5
    /\ last.resp[1].expense[1].amount = Num(10)

(***************************************************************************)
(* Writes whose saveDatabase throws.  saveDatabase has no try/catch and    *)
(* the write operations call it after db.run: an error of writeFileSync    *)
(* (the file or its directory is not writable, the disk is full) leaves    *)
(* the operation through the catch of the handler, after the statement     *)
(* has changed the database in memory.  The file is left as it was.        *)
(***************************************************************************)
ERR_WRITE == "EACCES: permission denied, open 'finance.db'"

\* the outcome out of a write operation begun with the file f, when the
\* writeFileSync of its saveDatabase throws
SaveThrows(out, f) ==
    IF out.saved THEN Thrown(out.db, f, ERR_WRITE) ELSE out

\* one write operation, of those of ConcurrentCalls, run whole
WriteCall ==
    \E c \in ConcurrentCalls :
        \E whole \in {RunWhole(c, db, file, now)} :
            /\ c.tool = "add_expense" /\ whole.saved =>
                  Len(issued) < MaxId /\ Cardinality(db.expenses) < MaxRows
            /\ Handled(c.tool, whole)
            /\ now' = ClockAfter(c, whole, now)
            /\ issued' = IF c.tool = "add_expense" /\ whole.saved
                         THEN Append(issued, NextRowid(db)) ELSE issued

\* the same operation when its saveDatabase throws
WriteCallSaveFails ==
    \E c \in ConcurrentCalls :
        \E whole \in {RunWhole(c, db, file, now)} :
            /\ whole.saved
            /\ c.tool = "add_expense" =>
                  Len(issued) < MaxId /\ Cardinality(db.expenses) < MaxRows
            /\ Handled(c.tool, SaveThrows(whole, file))
            /\ now' = ClockAfter(c, whole, now)
            /\ issued' = IF c.tool = "add_expense"
                         THEN Append(issued, NextRowid(db)) ELSE issued

NextSaveFails == WriteCall \/ WriteCallSaveFails

SpecSaveFails == Init /\ [][NextSaveFails]_vars

WriteFailed == last.op \in WriteTools /\ ~last.resp.success

\* C26: whenever add_expense, update_expense or delete_expense reports
\* failure, the store in memory is what it was before the call, also when
\* the failure comes from the persistence step after the statement has run;
\* so no later successful operation writes to the file a change that was
\* reported as failed.
Cex_C26_FailureLeavesStore ==
    [][WriteFailed' => db' = db]_vars

\* what holds: a write that fails before its statement (a missing row, an
\* invalid argument, nothing to update) changes neither the store nor the file
FailureBeforeStatementLeavesStore ==
    [][WriteFailed' /\ last'.resp.error # ERR_WRITE => db' = db /\ file' = file]_vars

(***************************************************************************)
(* Amounts with a fractional part.  amount is a REAL column and SUM adds   *)
(* doubles: here the amounts are counted in tenths, the amount of n tenths *)
(* is the double nearest to n / 10, and a sum is rounded at each addition. *)
(* getMonthlySummary is asked of a store of up to three such rows.         *)
(***************************************************************************)
RECURSIVE AddFrom(_, _, _, _)
\* the seven base-512 digits of a + b: from place i to the left with carry c
AddFrom(a, b, i, c) ==
    IF i = 0 THEN <<c>>
    ELSE Append(AddFrom(a, b, i - 1, (a[i] + b[i] + c) \div Base),
                (a[i] + b[i] + c) % Base)
\* the double nearest to the seven-digit sum, d bits of the smaller addend
\* being cut off before the addition
RoundSum(exp, sum, inexact) ==
    IF sum[1] = 1 THEN RoundShifted(exp + 1, sum, 1, inexact)
    ELSE RoundShifted(exp, sum, 0, inexact)
\* x + y for doubles x, y > 0 with x.exp - y.exp = d, 0 <= d < 9
PlusAligned(x, y, d) ==
    RoundSum(x.exp, AddFrom(x.digits, Shifted(<<0>> \o y.digits, d), 6, 0),
             y.digits[6] % 2^d # 0)
\* x + y in double precision
Plus(x, y) ==
    IF x.exp >= y.exp THEN PlusAligned(x, y, x.exp - y.exp)
    ELSE PlusAligned(y, x, y.exp - x.exp)

TenthsRow(id, n, category, date) ==
    [id |-> id, tenths |-> n, category |-> category, description |-> Str_tea,
     date |-> date, created_at |-> 0]
\* the amount of the row, a double
AmountOfTenths(r) == Divide(r.tenths, 10)
TenthsKinds ==
    {1, 2, 3, 10} \X {Str_food, Str_transport} \X {Date_0228, Date_0229, Date_0301}
TenthsIds == 1..3
\* every table of at most three rows of these kinds, ids from 1
TenthsStores ==
    {Store({TenthsRow(i, k[i][1], k[i][2], k[i][3]) : i \in 1..n}) :
        n \in {0} \cup TenthsIds, k \in [TenthsIds -> TenthsKinds]}

RECURSIVE SumThrough(_, _)
\* SUM(amount) over the rows of S with ids up to k, in the order of the
\* ids: <<>> for NULL, the sum of no rows
SumNext(sofar, here) ==
    IF here = {} THEN sofar
    ELSE IF sofar = <<>> THEN <<AmountOfTenths(CHOOSE r \in here : TRUE)>>
    ELSE <<Plus(sofar[1], AmountOfTenths(CHOOSE r \in here : TRUE))>>
SumThrough(S, k) ==
    IF k = 0 THEN <<>> ELSE SumNext(SumThrough(S, k - 1), {r \in S : r.id = k})
SumOfTenths(S) == SumThrough(S, Cardinality(TenthsIds))

\* the row of a group g of the two GROUP BY queries, counting every group
\* as one transaction
GroupOfTenths_CountOne(key, g) ==
    [key |-> key, transaction_count |-> 1, total_amount |-> SumOfTenths(g)[1]]
\* the row of a group g of the two GROUP BY queries: COUNT(*), SUM(amount)
GroupOfTenths(key, g) ==
    [key |-> key, transaction_count |-> Cardinality(g),
     total_amount |-> SumOfTenths(g)[1]]
\* the three queries of getMonthlySummary over the rows S of the month; the
\* groups are kept as sets, at most two of each kind
SummaryOfTenths(S) ==
    [summary |-> [total_transactions |-> Cardinality(S),
                  total_spending |-> IF S = {} THEN ZeroDouble
                                     ELSE SumOfTenths(S)[1]],
     category_breakdown |->
         {GroupOfTenths(c, {r \in S : r.category = c}) : c \in {r.category : r \in S}},
     daily_spending |->
         {GroupOfTenths(x, {r \in S : r.date = x}) : x \in {r.date : r \in S}}]

InitTenths ==
    /\ db \in TenthsStores
    /\ file = saveDatabase(db)
    /\ now = 0
    /\ issued = Counting(db.seq)
    /\ last = [op |-> "none", month |-> 0, rows |-> {}, resp |-> SummaryOfTenths({})]

AskSummaryOfTenths ==
    /\ Unasked
    /\ \E month \in {2, 3} :
          \E S \in {BetweenDates(db, MonthStartDate(2024, month),
                                 MonthEndDate(2024, month))} :
              last' = [op |-> "get_monthly_summary", month |-> month, rows |-> S,
                       resp |-> SummaryOfTenths(S)]
    /\ UNCHANGED <<db, file, now, issued>>

NextTenths == AskSummaryOfTenths
SpecTenths == InitTenths /\ [][NextTenths]_vars

\* the sum of transaction_count over the groups
CountOver(groups) ==
    IF groups = {} THEN 0
    ELSE IF Cardinality(groups) = 1 THEN (CHOOSE g \in groups : TRUE).transaction_count
    ELSE (CHOOSE g \in groups : TRUE).transaction_count
         + (CHOOSE h \in groups : h # (CHOOSE g \in groups : TRUE)).transaction_count
\* the sum of total_amount over the groups, added as doubles
AmountOver(groups) ==
    IF groups = {} THEN ZeroDouble
    ELSE IF Cardinality(groups) = 1 THEN (CHOOSE g \in groups : TRUE).total_amount
    ELSE Plus((CHOOSE g \in groups : TRUE).total_amount,
              (CHOOSE h \in groups : h # (CHOOSE g \in groups : TRUE)).total_amount)
TenthsAsked == last.op = "get_monthly_summary"
CountsAgree ==
    /\ last.resp.summary.total_transactions = CountOver(last.resp.category_breakdown)
    /\ last.resp.summary.total_transactions = CountOver(last.resp.daily_spending)
AmountsAgree ==
    /\ last.resp.summary.total_spending = AmountOver(last.resp.category_breakdown)
    /\ last.resp.summary.total_spending = AmountOver(last.resp.daily_spending)
WholeAmounts == \A r \in last.rows : r.tenths % 10 = 0

\* C27 as stated: in every get_monthly_summary result total_transactions
\* equals the sum of transaction_count over category_breakdown and over
\* daily_spending, and total_spending equals the sum of total_amount over
\* category_breakdown and over daily_spending.
Cex_C27_SumsAgree == TenthsAsked => CountsAgree /\ AmountsAgree

\* C27: in every get_monthly_summary result total_transactions equals the
\* sum of transaction_count over category_breakdown and over daily_spending;
\* total_spending equals the sum of total_amount over category_breakdown and
\* over daily_spending when the amounts of the month are whole numbers, whose
\* sums are exact.
Thm_C27_Subtotals == TenthsAsked => CountsAgree /\ (WholeAmounts => AmountsAgree)

\* February 2024 with three records of amount 1: two categories, two days,
\* total_spending 3
Wit_C27 ==
    /\ TenthsAsked
    /\ last.month = 2
    /\ Cardinality(last.rows) = 3
    /\ WholeAmounts
    /\ Cardinality(last.resp.category_breakdown) = 2
    /\ Cardinality(last.resp.daily_spending) = 2
    /\ last.resp.summary.total_spending = DoubleOfInt(3)
    /\ AmountsAgree

\* the two breakdowns disagree with each other, each group having at most
\* two rows: 0.1 + 0.2 and 0.3 by category, 0.1 and 0.2 + 0.3 by day
GroupingsDisagree ==
    /\ TenthsAsked
    /\ \A r \in last.rows : r.tenths \in {1, 2, 3}
    /\ \A g \in last.resp.category_breakdown \cup last.resp.daily_spending :
          g.transaction_count <= 2
    /\ AmountOver(last.resp.category_breakdown) # AmountOver(last.resp.daily_spending)

(***************************************************************************)
(* C28: the breakdown of a store the write operations have made            *)
(***************************************************************************)
SpendingAnswered == last.op = "get_spending_by_category" /\ last.resp.success
\* every stored amount is positive: addExpense and updateExpense let no
\* other amount in
StoredAmountsPositive == \A r \in db.expenses : AmountOf(r) > 0
PositiveGroup(g) ==
    /\ g.total_amount > 0
    /\ g.min_amount > 0
    /\ g.percentage.type = "string"
    /\ g.percentage # NumberValue(<<"0">>)

\* C28: in every reachable store state a get_spending_by_category result
\* with categories that are not empty has total_spending > 0 and every group
\* has total_amount > 0 and min_amount > 0; total_spending is zero only when
\* categories is empty, so the percentage of a returned group is never the
\* number 0 of the fallback.
Thm_C28_PositiveBreakdown ==
    /\ StoredAmountsPositive
    /\ SpendingAnswered =>
          /\ last.resp.categories # <<>> => last.resp.total_spending > 0
          /\ last.resp.total_spending = 0 <=> last.resp.categories = <<>>
          /\ \A i \in DOMAIN last.resp.categories :
                PositiveGroup(last.resp.categories[i])

\* the breakdown of a store of two records the write operations have made:
\* two groups, total_spending 30
Wit_C28 ==
    /\ SpendingAnswered
    /\ Len(last.resp.categories) = 2
    /\ last.resp.total_spending = 30
    /\ Cardinality(db.expenses) = 2

(***************************************************************************)
(* C29: every record belongs to the summary of one month                   *)
(***************************************************************************)
\* the stored records whose date is written with the year y and the month m
DatedIn(y, m) == {r \in db.expenses : YearOf(r.date) = y /\ MonthOf(r.date) = m}
\* every date of the store is one isValidDate accepts, as addExpense and
\* updateExpense require
StoredDatesValid == \A r \in db.expenses : isValidDate(<<r.date>>)
CountedInDaily(r, days) ==
    \E i \in DOMAIN days :
        days[i].date = r.date /\ days[i].transaction_count >= 1

\* C29: a stored record whose date has a year in 2000..2100 is counted in
\* the get_monthly_summary of the year and month of its own date and in that
\* of no other: the summary of (year, month) counts exactly the records
\* whose date is written with that year and month, the last day of the month
\* and the days next to a change of year included, so that over all months
\* no record is lost or counted twice.
Thm_C29_OwnMonthOnly ==
    ValidMonthAsked =>
        /\ StoredDatesValid
        /\ last.resp.success
        /\ last.resp.summary.total_transactions =
               Cardinality(DatedIn(YearAsked, MonthAsked))
        /\ \A r \in DatedIn(YearAsked, MonthAsked) :
               CountedInDaily(r, last.resp.daily_spending)
        /\ \A i \in DOMAIN last.resp.daily_spending :
               /\ YearOf(last.resp.daily_spending[i].date) = YearAsked
               /\ MonthOf(last.resp.daily_spending[i].date) = MonthAsked

\* January 2024 of the store with records of 31 December 2023, 1 and 31
\* January and 1 February 2024: the two records of January, its first and
\* its last day
Wit_C29 ==
    /\ ValidMonthAsked
    /\ db = MonthEnds
    /\ YearAsked = 2024 /\ MonthAsked = 1
    /\ last.resp.summary.total_transactions = 2
    /\ Len(last.resp.daily_spending) = 2
    /\ last.resp.daily_spending[1].date = Date_20240101
    /\ last.resp.daily_spending[2].date = Date_20240131

(***************************************************************************)
(* C30: the category filter of get_expenses and export_to_csv              *)
(***************************************************************************)
CategoryFilterAsked ==
    /\ last.op \in {"get_expenses", "export_to_csv"}
    /\ last.args[3] \notin {<<>>, EmptyText}
    /\ InFixedSetIgnoringCase(last.args[3][1])
\* the category asked for written in lower case
LowerCaseAsked == CHOOSE v \in ValidCategorySet : IsLowerCaseOf(v, last.args[3][1])
\* the answer to the request of `last` with the category c in its place
AnswerWithCategory(c) ==
    IF last.op = "get_expenses"
    THEN getExpenses(db, file, last.args[1], last.args[2], c, last.args[4]).resp
    ELSE exportToCSV(db, file, last.args[1], last.args[2], c).resp
DateGiven(x) == x \notin {<<>>, EmptyText}
\* the stored records of category l in the date range asked for
StoredAs(l) ==
    {r \in db.expenses :
        /\ r.category = l
        /\ DateGiven(last.args[1]) => DayNumber(r.date) >= DayNumber(last.args[1][1])
        /\ DateGiven(last.args[2]) => DayNumber(r.date) <= DayNumber(last.args[2][1])}
\* the answer holds the records M, all of them when no limit was passed
AnswersWith(M) ==
    /\ last.resp.success
    /\ last.op = "get_expenses" =>
          /\ Range(last.resp.expenses) \subseteq M
          /\ last.args[4] = <<>> => Range(last.resp.expenses) = M
    /\ last.op = "export_to_csv" => last.resp.count = Cardinality(M)

\* C30: the category filter of get_expenses and export_to_csv does not look
\* at the case of letters: a category written in any case (Food, BILLS) gets
\* the answer its lower-case form gets, which holds the records whose stored
\* category is that lower-case value.
Thm_C30_CategoryAnyCase ==
    CategoryFilterAsked =>
        /\ last.resp = AnswerWithCategory(<<LowerCaseAsked>>)
        /\ AnswersWith(StoredAs(LowerCaseAsked))

\* BILLS asked of the store with one record of bills among six
Wit_C30 ==
    /\ CategoryFilterAsked
    /\ last.op = "get_expenses"
    /\ last.args[3] = <<Str_BILLS>>
    /\ db = MonthEnds
    /\ last.args[1] = <<>>
    /\ last.resp.count = 1
    /\ last.resp.expenses[1].category = Str_bills
    /\ last.resp.expenses[1].id = 3

====
